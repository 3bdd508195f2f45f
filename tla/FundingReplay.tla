---------------------------- MODULE FundingReplay ----------------------------
(***************************************************************************)
(* Funding of the trend engine: each native payment of the venue is        *)
(* settled once, in order, at the exposure the position timeline gives at  *)
(* the time of the payment, however late or out of order it is published   *)
(* and wherever the process dies.  One strategy slot, long positions,      *)
(* price and rate one: an amount is the number of lots exposed.  Funding   *)
(* slot s falls at stamp 2s; what happens after it and before the next one *)
(* bears stamp 2s + 1.                                                     *)
(***************************************************************************)
EXTENDS Integers, Sequences, FiniteSetsExt

CONSTANTS
    MaxSlot,   \* bound: funding slots of the instrument
    MaxLot,    \* lots of a full position
    MaxFill,   \* bound: fills at the venue
    MaxCrash,  \* bound: kills of the process
    MaxFault,  \* bound: store errors
    Burst      \* StartLimitBurst of the unit

ASSUME FundingBounds == MaxSlot \in Nat \ {0} /\ MaxLot \in Nat \ {0} /\ MaxFill \in Nat
ASSUME FundingFaults == MaxCrash \in Nat /\ MaxFault \in Nat /\ Burst \in Nat \ {0}

VARIABLES
    paper,      \* PAPER broker (TRUE) or a venue
    now,        \* last funding slot that has passed
    shown,      \* what the venue shows of each slot
    fills,      \* the venue's own sequence of fills
    stopFilled, \* the last fill is a stop the engine has not seen
    row,        \* engine_state, the trend row
    ledger,     \* funding_ledger: the payment of a slot and its correction
    journal,    \* financial_fill_applications: fills of orders
    stops,      \* external_stop_fill_observed events
    incident,   \* accounting:trend:funding_uncertainty: 0 closed, else its slot
    memory,     \* the runner's memory of the trend row
    pc,         \* where the process is
    queue,      \* payments of the poll still to settle
    gap,        \* _funding_data_unavailable
    base,       \* history: where the cursor started
    owed,       \* history: slots settled on a timeline an older release left incomplete
    starts,     \* starts counted in the current StartLimitIntervalSec
    failed,     \* systemd gave the unit up
    crashes, faults  \* bounded counters

fundingVars == <<paper, now, shown, fills, stopFilled, row, ledger, journal, stops, incident,
                 memory, pc, queue, gap, base, owed, starts, failed, crashes, faults>>
venue == <<paper, now, shown, fills, stopFilled>>
startLimit == <<starts, failed>>
counters == <<base, owed, startLimit, crashes, faults>>

-----------------------------------------------------------------------------
(* Time, exposure, ledger. *)

Slots == 1 .. MaxSlot
Stamp == 2 * now + 1
NoCursor == 2 * MaxSlot + 2
NoSlot == MaxSlot + 1   \* an incident that names no payment

LastFill == fills[Len(fills)]
Entry(at, intent, qty) == [at |-> at, intent |-> intent, qty |-> qty]

\* A timeline is read in the order of its effects; the intents tell those of one stamp apart.
Follows(e, f) == f.at < e.at \/ (f.at = e.at /\ f.intent <= e.intent)
Insert(tl, e) == IF \E f \in tl : f.intent = e.intent THEN tl ELSE tl \cup {e}

\* The exposure of the last transition at or before a stamp; flat before any.
InForce(tl, stamp) == LET past == {e \in tl : e.at <= stamp}
                      IN  IF past = {} THEN 0 ELSE (CHOOSE e \in past : \A f \in past : Follows(e, f)).qty
\* Mutated form: the exposure of the moment, as without a timeline.
ExposureNow(tl, s) == InForce(tl, NoCursor)
ExposureAt(tl, s) == InForce(tl, 2 * s)

\* A position without any transition has an unknown history.
ExposureKnown(engine) == engine.timeline # {} \/ engine.pos = 0

NoPayment == [done |-> FALSE, amount |-> 0, correction |-> 0]
Net(s) == ledger[s].amount - ledger[s].correction

\* contiguous_funding: due payments, up to the first slot the venue does not show.
Due == {s \in Slots : 2 * s > memory.cursor /\ shown[s] # "absent"}
ContiguousFromOrigin(s) == \A e \in 1 .. s - 1 : shown[e] # "absent"
Contiguous(s) == \A e \in Slots : memory.cursor < 2 * e /\ e < s => shown[e] # "absent"
Accepted == {s \in Due : Contiguous(s)}

-----------------------------------------------------------------------------
(* The venue and time. *)

\* Time passes, and the venue publishes, where a step of the process can tell: the steps
\* of a settlement work on the answer of the poll and commute with both.
TimePasses ==
    /\ now < MaxSlot
    /\ pc \in {"down", "poll", "watch"}
    /\ now' = now + 1
    /\ UNCHANGED <<paper, shown, fills, stopFilled, row, ledger, journal, stops, incident,
                   memory, pc, queue, gap, counters>>

\* Payments show up late and in any order; the candle that prices one may come later.
Publish(s) ==
    /\ s <= now
    /\ pc \in {"down", "poll"}
    /\ \/ /\ shown[s] = "absent"
          /\ \E form \in {"bare", "priced"} : shown' = [shown EXCEPT ![s] = form]
       \/ /\ shown[s] = "bare"
          /\ shown' = [shown EXCEPT ![s] = "priced"]
    /\ UNCHANGED <<paper, now, fills, stopFilled, row, ledger, journal, stops, incident,
                   memory, pc, queue, gap, counters>>

\* A venue fills a stop at any time, the process up or not; the PAPER broker when
\* the cycle shows it the price.
StopFills ==
    /\ row.pos > 0 /\ ~stopFilled /\ Len(fills) < MaxFill
    /\ pc # "traded"
    /\ paper => pc = "watch"
    /\ \E rest \in 0 .. row.pos - 1 : fills' = Append(fills, [at |-> Stamp, qty |-> rest])
    /\ stopFilled' = TRUE
    /\ UNCHANGED <<paper, now, shown, row, ledger, journal, stops, incident,
                   memory, pc, queue, gap, counters>>

-----------------------------------------------------------------------------
(* The poll. *)

PollNotDue ==
    /\ pc = "poll"
    /\ pc' = "watch"
    /\ UNCHANGED <<venue, row, ledger, journal, stops, incident, memory, queue, gap, counters>>

PollFails ==
    /\ pc = "poll" /\ memory.cursor # NoCursor
    /\ gap' = TRUE
    /\ pc' = "watch"
    /\ UNCHANGED <<venue, row, ledger, journal, stops, incident, memory, queue, counters>>

\* Without a cursor the account starts now, unless a position is already open.
PollInitial ==
    /\ pc = "poll" /\ memory.cursor = NoCursor
    /\ gap' = FALSE
    /\ IF memory.pos > 0
         THEN /\ incident' = NoSlot
              /\ pc' = "down"
              /\ UNCHANGED <<row, memory, base>>
         ELSE /\ memory' = [memory EXCEPT !.cursor = Stamp]
              /\ row' = memory'
              /\ base' = Stamp
              /\ pc' = "watch"
              /\ UNCHANGED incident
    /\ UNCHANGED <<venue, ledger, journal, stops, queue, owed, startLimit, crashes, faults>>

PollRead ==
    /\ pc = "poll" /\ memory.cursor # NoCursor
    /\ gap' = \E s \in Due : ~Contiguous(s)
    /\ queue' = {[slot |-> s, priced |-> shown[s] = "priced"] : s \in Accepted}
    /\ pc' = IF queue' = {} THEN "watch" ELSE "settle"
    /\ UNCHANGED <<venue, row, ledger, journal, stops, incident, memory, counters>>

-----------------------------------------------------------------------------
(* The settlement of one payment. *)

\* Observed stops that an older release left out of the timeline.
Missing == {e \in stops : \A f \in row.timeline : f.intent # e.intent}

Payment == CHOOSE q \in queue : \A r \in queue : q.slot <= r.slot
Exposure == ExposureAt(memory.timeline, Payment.slot)
Settleable == ExposureKnown(memory) /\ (Exposure > 0 => Payment.priced)

\* No proven exposure or no proven price: the process stops, nothing is settled.
Uncertain ==
    /\ pc = "settle" /\ ~Settleable
    /\ incident' = Payment.slot
    /\ pc' = "down"
    /\ gap' = FALSE
    /\ queue' = {}
    /\ memory' = row
    /\ UNCHANGED <<venue, row, ledger, journal, stops, counters>>

\* Ledger row, cash and cursor in one transaction, the checkpoint written from memory.
Settle ==
    /\ pc = "settle" /\ Settleable
    /\ ledger' = [ledger EXCEPT ![Payment.slot] =
                    [done |-> TRUE, amount |-> Exposure, correction |-> 0]]
    /\ memory' = [memory EXCEPT !.cash = @ - Exposure, !.cursor = 2 * Payment.slot]
    /\ row' = memory'
    /\ pc' = "settled"
    /\ owed' = IF Missing = {} THEN owed ELSE owed \cup {Payment.slot}
    /\ UNCHANGED <<venue, journal, stops, incident, queue, gap, base, startLimit, crashes, faults>>

\* The transaction fails: memory is put back and the loop goes on.
SettleFault ==
    /\ pc = "settle" /\ Settleable
    /\ faults < MaxFault /\ faults' = faults + 1
    /\ queue' = {}
    /\ pc' = "poll"
    /\ UNCHANGED <<venue, row, ledger, journal, stops, incident, memory, gap, base, owed, startLimit, crashes>>

ResolveIncident ==
    /\ pc = "settled"
    /\ incident' = 0
    /\ queue' = queue \ {Payment}
    /\ pc' = IF queue' = {} THEN "watch" ELSE "settle"
    /\ UNCHANGED <<venue, row, ledger, journal, stops, memory, gap, counters>>

-----------------------------------------------------------------------------
(* Stops and trades. *)

\* Where a look at the stops leads: the start goes to the loop, the loop to its decisions.
AfterWatch == IF pc = "boot" THEN "poll" ELSE "act"

\* The fill of a stop, its transition and the checkpoint in one transaction; the effect is
\* dated when it is observed.
ObserveStop ==
    /\ pc \in {"boot", "watch"} /\ stopFilled
    /\ LET e == Entry(Stamp, Len(fills), LastFill.qty)
       IN  /\ memory' = [memory EXCEPT !.pos = e.qty, !.timeline = Insert(@, e)]
           /\ stops' = stops \cup {e}
    /\ row' = memory'
    /\ stopFilled' = FALSE
    /\ pc' = AfterWatch
    /\ UNCHANGED <<paper, now, shown, fills, ledger, journal, incident, queue, gap, counters>>

\* A failed transaction stops the process; the fill is seen again at the next start.
ObserveStopFault ==
    /\ pc \in {"boot", "watch"} /\ stopFilled
    /\ faults < MaxFault /\ faults' = faults + 1
    /\ pc' = "down"
    /\ gap' = FALSE
    /\ memory' = row
    /\ UNCHANGED <<venue, row, ledger, journal, stops, incident, queue, base, owed, startLimit, crashes>>

NothingToObserve ==
    /\ pc \in {"boot", "watch"} /\ ~stopFilled
    /\ pc' = AfterWatch
    /\ UNCHANGED <<venue, row, ledger, journal, stops, incident, memory, queue, gap, counters>>

\* An order fills and its finalisation commits the position; new exposure needs funding data.
Trade ==
    /\ pc = "act" /\ ~stopFilled /\ Len(fills) < MaxFill
    /\ \E qty \in 0 .. MaxLot \ {memory.pos} :
          /\ qty > memory.pos => ~gap
          /\ fills' = Append(fills, [at |-> Stamp, qty |-> qty])
          /\ memory' = [memory EXCEPT !.pos = qty]
          /\ journal' = IF paper THEN journal \cup {Entry(Stamp, Len(fills'), qty)} ELSE journal
    /\ row' = memory'
    /\ pc' = "traded"
    /\ UNCHANGED <<paper, now, shown, stopFilled, ledger, stops, incident, queue, gap, counters>>

Transition == Entry(LastFill.at, Len(fills), memory.pos)

\* The transition is a commit of its own, after the one of the position.
RecordTransition ==
    /\ pc = "traded"
    /\ memory' = [memory EXCEPT !.timeline = Insert(@, Transition)]
    /\ row' = memory'
    /\ pc' = "act"
    /\ UNCHANGED <<venue, ledger, journal, stops, incident, queue, gap, counters>>

\* When that commit fails memory keeps the transition for the next checkpoint.
RecordFault ==
    /\ pc = "traded"
    /\ faults < MaxFault /\ faults' = faults + 1
    /\ memory' = [memory EXCEPT !.timeline = Insert(@, Transition)]
    /\ pc' = "poll"
    /\ UNCHANGED <<venue, row, ledger, journal, stops, incident, queue, gap, base, owed, startLimit, crashes>>

EndCycle ==
    /\ pc = "act"
    /\ row' = memory
    /\ pc' = "poll"
    /\ UNCHANGED <<venue, ledger, journal, stops, incident, memory, queue, gap, counters>>

-----------------------------------------------------------------------------
(* Crash, start and repair. *)

Crash ==
    /\ pc # "down" /\ crashes < MaxCrash
    /\ crashes' = crashes + 1
    /\ pc' = "down"
    /\ gap' = FALSE
    /\ memory' = row
    /\ queue' = {}
    /\ UNCHANGED <<venue, row, ledger, journal, stops, incident, base, owed, startLimit, faults>>

\* A position whose timeline is empty gets it back from the financial applications, if any.
Rebuildable == row.pos > 0 /\ row.timeline = {} /\ journal # {}
SettledIncident == incident \in Slots /\ ledger[incident].done

\* systemd starts the process again, Burst times in StartLimitIntervalSec; the window may be
\* over at any start.
Restart ==
    /\ pc = "down" /\ ~failed
    /\ \E counted \in {0, starts} : counted < Burst /\ starts' = counted + 1
    /\ Rebuildable => InForce(journal, NoCursor) = row.pos
    /\ memory' = IF Rebuildable THEN [row EXCEPT !.timeline = journal] ELSE row
    /\ row' = memory'
    /\ incident' = IF Rebuildable \/ SettledIncident THEN 0 ELSE incident
    /\ pc' = "boot"
    /\ UNCHANGED <<venue, ledger, journal, stops, queue, gap, base, owed, failed, crashes, faults>>

\* One start too many in the window: the unit fails, until an operator resets it.
StartRefused ==
    /\ pc = "down" /\ ~failed /\ starts = Burst
    /\ failed' = TRUE
    /\ UNCHANGED <<venue, row, ledger, journal, stops, incident, memory, pc, queue, gap,
                   base, owed, starts, crashes, faults>>

OperatorResets ==
    /\ failed
    /\ failed' = FALSE /\ starts' = 0
    /\ UNCHANGED <<venue, row, ledger, journal, stops, incident, memory, pc, queue, gap,
                   base, owed, crashes, faults>>

\* The operator's tool, PAPER only, engine stopped and flat, puts the missing transitions in
\* the timeline.
Provable(e) == InForce(row.timeline, e.at) > e.qty

\* A payment without a correction yet whose amount is not that of the repaired timeline.
Deviation(s) == ledger[s].amount - ExposureAt(row.timeline, s)
Adjustable(s) == ledger[s].done /\ ledger[s].correction = 0 /\ Deviation(s) # 0

RepairTimeline ==
    /\ pc = "down" /\ paper /\ row.pos = 0
    /\ Missing # {} \/ \E s \in Slots : Adjustable(s)
    /\ \A e \in Missing : Provable(e)
    /\ row' = [row EXCEPT !.timeline = @ \cup Missing]
    /\ memory' = row'
    /\ InForce(row'.timeline, NoCursor) = 0
    /\ pc' = "repair"
    /\ UNCHANGED <<venue, ledger, journal, stops, incident, queue, gap, counters>>

\* Each correction, its own row, and the cash in one transaction, in the order of the payments.
Adjust ==
    /\ pc = "repair"
    /\ \E s \in Slots :
          /\ Adjustable(s)
          /\ \A e \in 1 .. s - 1 : ~Adjustable(e)
          /\ ledger' = [ledger EXCEPT ![s].correction = Deviation(s)]
          /\ row' = [row EXCEPT !.cash = @ + Deviation(s)]
    /\ memory' = row'
    /\ UNCHANGED <<venue, journal, stops, incident, pc, queue, gap, counters>>

RepairEnds ==
    /\ pc = "repair" /\ \A s \in Slots : ~Adjustable(s)
    /\ owed' = {}
    /\ pc' = "down"
    /\ UNCHANGED <<venue, row, ledger, journal, stops, incident, memory, queue, gap,
                   base, startLimit, crashes, faults>>

-----------------------------------------------------------------------------
(* Initial databases: a new one; one with a position that predates timelines, with or
   without a cursor; a PAPER one whose stop, before slot 1, an older release left out of
   the timeline, so that slot 1 was settled at a quantity no longer held. *)

Fresh ==
    /\ paper \in BOOLEAN
    /\ now = 0 /\ base = NoCursor /\ owed = {}
    /\ fills = <<>> /\ stops = {}
    /\ row = [pos |-> 0, cash |-> 0, cursor |-> NoCursor, timeline |-> {}]
    /\ ledger = [s \in Slots |-> NoPayment]
    /\ shown = [s \in Slots |-> "absent"]

OldPosition ==
    /\ paper \in BOOLEAN
    /\ now = 0 /\ base \in {NoCursor, 1} /\ owed = {}
    /\ fills = <<[at |-> 0, qty |-> 1]>> /\ stops = {}
    /\ row = [pos |-> 1, cash |-> 0, cursor |-> base, timeline |-> {}]
    /\ ledger = [s \in Slots |-> NoPayment]
    /\ shown = [s \in Slots |-> "absent"]

OldStop ==
    /\ paper = TRUE
    /\ now = 1 /\ base = 0 /\ owed = {1}
    /\ fills = <<[at |-> 0, qty |-> 1], [at |-> 1, qty |-> 0]>>
    /\ stops = {Entry(1, 2, 0)}
    /\ row = [pos |-> 0, cash |-> -1, cursor |-> 2, timeline |-> {Entry(0, 1, 1)}]
    /\ ledger = [s \in Slots |-> IF s = 1 THEN [done |-> TRUE, amount |-> 1, correction |-> 0]
                                 ELSE NoPayment]
    /\ shown = [s \in Slots |-> IF s = 1 THEN "priced" ELSE "absent"]

FundingInit ==
    /\ Fresh \/ OldPosition \/ OldStop
    /\ journal = {} /\ stopFilled = FALSE /\ incident = 0
    /\ memory = row /\ pc = "down" /\ queue = {} /\ gap = FALSE
    /\ starts = 0 /\ failed = FALSE /\ crashes = 0 /\ faults = 0

Step == \/ PollNotDue \/ PollFails \/ PollInitial \/ PollRead
        \/ Uncertain \/ Settle \/ SettleFault \/ ResolveIncident
        \/ ObserveStop \/ ObserveStopFault \/ NothingToObserve
        \/ Trade \/ RecordTransition \/ RecordFault \/ EndCycle
Repair == RepairTimeline \/ Adjust \/ RepairEnds

FundingNext == \/ TimePasses \/ StopFills \/ Crash \/ Restart \/ StartRefused \/ OperatorResets
               \/ Step \/ Repair
               \/ \E s \in Slots : Publish(s)

\* The loop runs, systemd restarts the process up to its start limit, and the poll is due
\* and answered again and again; a repair that was begun ends unless it is killed.  Nothing
\* is asked of the operator who resets a failed unit.
Fairness == /\ WF_fundingVars(Step) /\ WF_fundingVars(Restart \/ StartRefused)
            /\ WF_fundingVars(Adjust \/ RepairEnds)
            /\ SF_fundingVars(PollRead)

FundingSpec == FundingInit /\ [][FundingNext]_fundingVars /\ Fairness

-----------------------------------------------------------------------------
(* Properties. *)

\* The durable cash is what the ledger explains, payments and corrections: no crash and
\* no store error separates a movement of cash from its row (state_store.py:2076).
Paid == {u \in Slots \X (1 .. MaxLot) : u[2] <= Net(u[1])}
LedgerIsCash == row.cash = -Cardinality(Paid) /\ \A s \in Slots : Net(s) \in 0 .. MaxLot

\* The cursor cuts the ledger: behind it every native slot is settled, past it none is,
\* whatever the order in which the venue showed them (funding_service.py:56).
CursorCutsLedger ==
    \A s \in Slots : ledger[s].done <=> base < 2 * s /\ 2 * s <= row.cursor /\ row.cursor # NoCursor

\* The fill in force at slot s at the venue; 0 before any.
FillAt(s) == LET past == {i \in DOMAIN fills : fills[i].at <= 2 * s}
             IN  IF past = {} THEN 0 ELSE Max(past)
HeldAt(s) == IF FillAt(s) = 0 THEN 0 ELSE fills[FillAt(s)].qty
\* The timeline knew that fill by then.
KnownAt(s) == FillAt(s) = 0 \/ \E e \in row.timeline : e.intent = FillAt(s) /\ e.at <= 2 * s

\* A payment is settled at what the venue held at its time, not at what is held when it is
\* polled, wherever the timeline holds the fill then in force (runner.py:1253); what an
\* older release settled wrongly is made good once a repair has ended, killed and run again
\* as it may be.
SettledAtExposure ==
    \A s \in Slots \ owed : ledger[s].done /\ KnownAt(s) => Net(s) = HeldAt(s)

\* The funding ledger is exact: every movement of cash has its row, every native slot
\* behind the cursor one settlement and none past it, each at the exposure of its time,
\* whatever was published late, out of order, refused or cut by a crash (funding_service.py:56).
LedgerIsExact == LedgerIsCash /\ CursorCutsLedger /\ SettledAtExposure

\* A published and priced payment behind no hole is settled after any finite number of
\* crashes and store errors, unless the position loses its history or the unit stays failed
\* (a payment without a proven price ends the process at each start, and systemd gives up
\* after Burst starts in a window; an operator must then reset it).
Reachable(s) ==
    /\ row.cursor # NoCursor /\ 2 * s > row.cursor
    /\ \A e \in 1 .. s : 2 * e > row.cursor => shown[e] = "priced"
PaymentsAreSettled ==
    [](ExposureKnown(row) \/ pc = "traded") /\ []<>~failed =>
        \A s \in Slots : Reachable(s) ~> ledger[s].done
=============================================================================
