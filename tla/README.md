# Verification of the TANDEM BTC engines

TLA+ specifications of the parts of this repository that decide, send, account
for and supervise orders: what may be sent to a venue, what the journal says of
it, what the portfolio becomes when processes crash, answers are lost and
several processes share one SQLite store, and what the tools around the engines
(deployment, restoration, migration, campaigns, cutovers, research) may do to
them. TLC checks the specifications on small instances; TLAPS proves the
theorems of section 8 for every value of the constants.

Paths are relative to the root of the repository. The package is
`src/btcquant`; `exec/` abbreviates `src/btcquant/execution/`.

1. The system and its components
2. Modules
3. Orders: `ExternalOrder`, `SettlementPass`, `PaperOrder`, `ProtectiveStop`
4. Capital: `CapitalFlow`, `FundingReplay`
5. Carry: `CarryTwoLeg`, `DatedCarry`
6. Supervision: `Monitoring`, `Qualification`; the tools: `Tools`
7. Runs, bounds, fairness
8. Theorems and proofs
9. Where code and text differ
10. What is not modelled

## 1. The system and its components

Two engines trade one account each from one SQLite database: *trend*
(directional, market orders and exchange stops) and *carry* (spot against
perpetual; a dated variant trades spot against a future from a ledger of its
own). Each is a Python process kept alive by systemd (`deploy/*.service`), with
an `flock` per engine and a checkpoint row (`engine_state`). Other processes
read or write the same store: rebalance timers, watchdog, dashboard, backups,
deployment scripts, operator commands.

Interactions:

- *shared store*: every component is a set of short SQLite transactions. What
  is atomic is one transaction; an operation is usually several;
- *calls to the venue*: an order is sent by one call that may be lost, time
  out, or succeed without its answer reaching the process;
- *process memory*: an engine works on a copy of its row and writes the whole
  row back, so what another transaction changed must be reloaded first;
- *files and links*: releases, markers, backups and archives move by rename and
  are read by processes that start later;
- *signals and units*: scripts stop and restart the engines around operations
  that write their rows.

| Component | State | Hard behaviour | What makes it correct | Status |
|---|---|---|---|---|
| Trend order path (`exec/order_service.py`, `order_repository.py`, `order_state.py`) | `orders` row, intent, planned payload | crash between two commits, retry of a known intent, lost answer | one `create_order` per intent; a concluded row stays so | modelled |
| External settlement (`exec/external_*.py`, `state_store.py`) | responses, commitments, settlements, applications | partial evidence, apply and finalise apart, replay after a crash | each executed quantity accounted exactly once | modelled |
| Evidence resolution (`exec/resolution.py`, `resolution_projection.py`) | none of its own: a reading of the journal | a venue that lags or contradicts itself between passes | settle what was executed, or nothing | modelled |
| Instance lock (`exec/instance_lock.py`) | the flock | the gap between constructor and loop | one owner | modelled |
| Trend runner (`exec/runner.py`, `reconcile.py`) | checkpoint, memory, latch | a catch-all that continues after an error | book equals venue; a latched engine is silent | partly |
| Protective stops (`exec/protective_stops.py`) | slot, stop rows | a live stop may fill at any moment; lost replies | never naked, never two, never forgotten | modelled |
| SQLite store, schema (`exec/state_store.py`) | tables, `schema_version` | concurrent and interrupted openings and migrations | no process on half a schema | schema modelled, store partly |
| Venue adapter (`exec/ccxt_broker.py`, `venue.py`) | none durable | ambiguous failures | one call per submission | partly |
| PAPER order path (`exec/broker.py`, `recovery.py`, `reconciliation_coordinator.py`, `paper_order_finalization.py`) | `orders`, evidence | fill, evidence, application, finalisation in separate commits | the book is what the fills add up to | modelled |
| Funding accounting (`exec/funding_service.py`) | funding ledger, cursor, position timeline | late, repeated, unpriced payments; outages | each slot once, at the exposure of its time | modelled |
| Portfolio risk and kill switches (`exec/risk_service.py`) | peak, day, halted | state across restarts | a halt is sticky | partly: the sticky flag |
| Incidents, watchdog, readiness, status (`exec/incident_repository.py`, `readiness.py`, `health.py`) | `incidents` | a run cut between record and notice; several reads of a moving store | told once, never a favourable verdict over a lasting fact | modelled |
| Carry engine (`exec/carry_runner.py`, `carry_paper.py`) | two legs, intent, funding cursor | one leg of two; a commit per leg | the state names the legs; transitions are taken up | modelled |
| Dated carry (`exec/carry_dated_ledger.py`, `carry_dated_runner.py`) | event ledger, checkpoint | settlements republished and corrected, half entries, expiry | each variation once, never a naked short | modelled |
| Carry cutover (`exec/carry_cutover.py`) | carry row, archive row | row, memory and operator's hash are three views | nobody overwrites an unseen checkpoint | modelled |
| Deposits and rebalance (`entrypoints/rebalance.py`, `deploy/*rebalance*`) | `capital_deposits`, `flows`, both rows | overlap with the engines and the other timer | capital conserved; a deposit counts once | modelled |
| Qualification (`exec/qualification_repository.py`, `readiness.py`) | technical records, campaigns | release, incidents and commands move between the reads | the gate admits what was bound to its release | modelled |
| Backup, restore, marker (`backup.py`) | sets, markers | crash between the stages | no writer on an unreconciled copy | modelled |
| Deployment (`deployment.py`, `deploy/update.sh`) | links, units, schema, copy | failure at any command | no write lost, code fits schema | modelled |
| Dated evidence collector (`research/carry_dated_collector.py`) | observations, segments | files written before the commit | nothing recorded is lost | modelled |
| Research governance (`research/governance_store.py`, `governed_walkforward.py`, `quant_policy.py`) | trials, holdouts, policies | overlapping runs, evaluation outside the transaction | evaluated once; what was shown is kept | partly |

Not modelled: operator reports over the history, carry contracts and policy,
testnet preflight, shadow engine, strategies, indicators and market data,
backtests and studies, dashboard and digests, entry points and configuration
(section 10). `PROJECT.json` lists the source files of each component and,
under "hazards", the lines where each hard behaviour bites with the property
that would catch it.

## 2. Modules

| Module | Role |
|---|---|
| `OrderTypes` | vocabulary of the order journal: row states, outcomes, intents, checkpoint |
| `FinancialTransition` | abstract promise: executed at most once, accounted exactly once, void means never executed |
| `ExternalOrder` | processes, store and venue of the external order path; implements the promise |
| `SettlementPass` | what one settlement pass reads, journals, concludes and applies |
| `PaperOrder` | the PAPER order path, its recovery and coordinator |
| `ProtectiveStop` | the stop saga of one slot, one process, the venue |
| `CapitalFlow` | engines, wrappers, deposits, rebalance |
| `FundingReplay` | funding of the trend engine |
| `CarryTwoLeg`, `DatedCarry` | the two carries |
| `Monitoring` | watchdog, incidents, readiness, status command |
| `Qualification` | technical record, campaign, report, testnet gate |
| `Tools` | composition of the tools: `Deployment` (extended), `RecoveryGate`, `Schema`, `WalkForward`, `Sealing`, `Collector`, `Cutover` (instances) |
| `*Inv`, `*Proofs` | inductive invariants and proofs |
| `MC*` | instances for TLC |

`ExternalOrder` is the composition of runner, order service, settlement, lock
and venue: they share every variable and are one module with one action per
commit or call. The others are separate because they touch other columns. A
module that needs to know of another's effect has it as a nondeterministic step:
`Exit` of `ProtectiveStop` stands for the whole order of an exit, `Trade` of
`FundingReplay` for an entry or an exit, `Switch` of `Qualification` for a
deployment, `Reconcile` of `RecoveryGate` for the operator's work.
`SettlementPass` details `AcquireSettlement` and `ReconcileBlocked` of
`ExternalOrder`. `Tools` chooses one component per behaviour (`tool`): the
components share no state, and a product of them would interleave what cannot
interact.

Every module has one action per commit, per call, or per step a process may be
cut at; parameters are constants with named assumptions; no module uses a
recursive operator.

## 3. Orders

### External orders: `ExternalOrder`

One step is one `BEGIN IMMEDIATE ... COMMIT`, one interaction with the venue or
one phase of the cycle in memory. A crash may fall between any two.

| Variable | Code |
|---|---|
| `order` | table `orders`: `local_state` and the legacy `status` |
| `plan` | the financial application plan journalled with the reservation; its pre-state is a checkpoint |
| `responses`, `looked` | durable submission responses, reduced to outcome and committed quantity; the lookups journalled |
| `settlement`, `applied` | the complete settlement and `financial_settlement_applications` |
| `engine` | the row of the trend engine: position, transition sequence, last bar, kill switch, timeline, latch |
| `venue`, `fill`, `sent`, `net` | the venue: what became of each order, executed quantity, calls, net position |
| `lock` | the `flock` of the engine |
| `pc`, `mem`, `cur`, `back`, `reply`, `manual` | each process: step, checkpoint in memory, order in hand, where the order returns to, the broker's answer, orders recovery leaves to a human |

An intent (`LogicalOrderIdentity`) is kind, checkpoint and sequence number:
checkpoint `b > 0` is a closed bar, checkpoint 0 the stable identity of a
kill-switch exit. That the identity is *stable* makes reservations idempotent.

| Actions | Code |
|---|---|
| `Boot`, `RecoverAbort`, `RecoverOrder`, `FinishRecovery`, `RefuseStart` | `LiveRunner.__init__`, `external_settlement_recovery.py` under the startup lock |
| `RunForever`, `RunForeverRefused` | the second flock section and the reload |
| `PositionAgrees`, `PositionCheckNotDue`, `RequireManualReconciliation` | position check and durable latch |
| `RiskWithoutLiquidation`, `LiquidateIfHalted` | risk phase and kill switch |
| `BarWithoutOrder`, `BarEnters`, `BarExits`, `SaveCycle` | due bars, the end-of-cycle checkpoint |
| `ReserveNew`, `Reclaim`, `RefuseReservation` (inside `PlaceOrder`) | `order_repository.py` reservation, reclaim of `INTENT_CREATED` and `RECOVERED_ABORTED` rows |
| `MarkSubmitting`, `Send`, `Receive`, `RecordResponse`, `RecordSubmissionError` | `order_service.submit_market` around the single broker call |
| `RecordTerminalObservation`, `RecordOpenObservation` | observation of the answer |
| `FinalizeZeroEffect`, `JournalLookup`, `AcquireSettlement`, `ReconcileBlocked` | `external_settlement_runtime.py`, `external_settlement_acquisition.py` |
| `ApplySettlement`, `ApplyBlocked` | `apply_external_settlement_atomically` |
| `Finalize`, `FinalizeBlocked`, `RecordTransition` | the finaliser, then the timeline in a commit of its own |
| `Crash`, `StoreFault`, `Shutdown`, `CycleFails` | death at any step; a store error the loop swallows; SIGTERM; market data down |
| `VenueFills`, `VenueDeclines` | external: the IOC executes in whole or in part, finds no match, or is rejected |

Quantities are whole lots, so the tolerance of the position comparison is not
seen. The fill lookup shows any part of the executed quantity; hashes, cursors
and fee rows are reduced to the quantity they prove. The outcomes that carry
neither a commitment nor a proof of zero effect are one (`UNCOMMITTED`).
Position reconciliation refuses several slots, so there is one.

Properties: `AtMostOneSubmission`; `ExactAccounting` (what is applied is what
was executed); `BookMatchesVenue` and `LatchedEngineIsSilent` (as long as the
loop swallowed no store fault); for one process `SoleExposedOrder` (nothing is
sent beside an unresolved order), `CommittedOrderConcludes` (an order with a
durable commitment is closed or handed to the operator, as long as no process
stays down for good), and the refinement `ImplementsPromise`, under which
executed is `fill`, accounted is `applied`,
void are the rows closed `CANCELED` and the position is the durable row's.

### One settlement: `SettlementPass`

An order with a durable commitment is settled over several passes. A pass reads
the order, then twice its fills, into memory (`Acquire`), journals each answer
in a transaction of its own (`PersistOrder`, `PersistFills`,
`PersistSettlement`), then assesses the *whole* journal, earlier passes
included (`Conflict`, `LowerBound`, `Settles`), and only then applies and
finalises. The venue may lag, answer nothing or nonsense, contradict itself, or
deliver a trade under two payloads. An answer is a set of rows; the venue gives
a trade id; a trade has one quantity, not above the order's; quantities are
counted in lots; prices are left out.

`SettlementIsJust`: what is applied is each executed trade once, and a first
pass over a complete, consistent settlement is not blocked.
`ConflictNeverForgotten`: no later clean answer makes a contradictory journal
settleable.

### PAPER orders: `PaperOrder`

The same cycle over the simulator: `Reserve`, `Reclaim`, `MarkSubmitting`,
`Execute`, `Observe`, `PersistEvidence`, `Apply`, `Finalize` and
`RecordTransition` are separate commits; `Start` and the `Recover*` actions are
`recovery.py` with the coordinator, which compare the row with the planned
pre-state and post-state. `SoftStop` and the kill switch are the exits of a
tick. `orders` holds plan and evidence with each row, `draw` the simulator's
answer (a function of the intent), `durable` and `mem` the two copies of the
engine state.

`BookIsLedger`: without a swallowed store error, the durable position is what
the applied fills add up to, and memory agrees between two orders.
`DurableFillIsFinalised`: every order whose fill is durable is finalised, by
its process or by a later recovery, if there is always a later process.

### Protective stops: `ProtectiveStop`

The saga that replaces the exchange stop of a held position: intent and phase
`PLACING` in one commit, lookup, phase `SUBMITTING`, the call, confirmation,
cancellation of the old stop, *proof* that it is over, promotion.

| Variable | Code |
|---|---|
| `eng` | slot of the checkpoint: position, active stop, `stop_transition`, latch |
| `row`, `qty` | rows of type STOP in `orders` and their quantity |
| `observed` | rows `observed-stop-<id>`, written with the fill |
| `venue`, `filled`, `sends`, `net` | the venue, calls made, net position |
| `pc`, `mem`, `ret` | the process: step, its slot, where the saga returns |
| `starts`, `failed` | systemd: starts counted in the window, the unit it gave up |

`Boot` is a start of the unit and counts against its limit (`Burst` starts in
`StartLimitIntervalSec`; time is left out, so a window may be over at any start);
`StartRefused` is systemd giving the unit up, `OperatorResets` the human who
brings it back. `Observe`, `Reconcile`, `Recover`, `Monitor`, `Settle`, `NoDecision`, `Enter`,
`Trail`, `Exit` and `SaveCycle` follow startup and cycle in order; `Begin`, the
lookups, the `Persist...` steps, `PlaceStop`, `Confirm`, `CancelAccepted`,
`CancelRefused`, the `Verify...` steps, `Retire` and `Finish` are the saga. At
any moment the venue may trigger a stop for part or all of the position
(`Triggers`), cancel it (`CanceledByVenue`) or index late an order whose reply
was lost (`Arrives`). A store error inside the saga is wrapped in
`ReconciliationRequired` and stops the process: it is `Crash`.

Properties: `AtMostOnePlacement`; `NeverTradesNaked` (decisions only under an
accepted stop of the position's quantity); `NoOrphanStop` (a live stop is named
by the checkpoint); `AcceptedStopPromoted` (a replacement the venue accepted is
promoted, or the engine latches, unless the unit stays failed). The premise is
needed: a lookup that fails ends the process, and after five quick starts nobody
resumes the transition. A comment of the code makes the
promise without it (section 9, *Outage*).

## 4. Capital

### Deposits and transfers: `CapitalFlow`

`btcquant-rebalance` registers deposits (`PENDING`), splits them 60/40, brings
a drift of three points or more back to the target and marks the deposits
`APPLIED`, in one transaction over rows loaded earlier. The monthly and the
daily wrapper stop both engines first and restart them in an EXIT trap; a
direct call (`"manual"`) does neither.

| Variable | Code |
|---|---|
| `db`, `deposits`, `flowed` | `engine_state`, `capital_deposits`, the sums of `flows` |
| `unit`, `mem` | systemd units, memory of the running engines |
| `job` | a run of the wrapper: its step, the rows it loaded, the deposits it read |
| `earned`, `exclusive`, `trades` | history: trading result; whether jobs have always been alone; a bound |

`Start`, `Probe`, `StopEngines`, `Load`, `Register`, `ReadPending`, `Save`,
`Abort`, `RestartEngines` are one run; `Boot`, `Tick`, `Enter`, `Exit`,
`LatchTrend`, `EngineCrash` the engines; `Reboot` the host.

The two timers are persistent and the wrappers take no lock: after an outage
they may run together, and the restart of one may fall inside the transaction
of the other. `CapitalAccounted` (an engine holds its initial capital, its
gains and its flows) is stated while jobs have been alone, because it fails
otherwise. The overlap is among the behaviours: `EnginesComeBack` is checked,
`DepositsCountedOnce` and `LatchKept` are proved with it. Amounts are multiples of ten, so that
shares are exact; the cash of the slots of trend is one sum.

### Funding of trend: `FundingReplay`

Native slot `s` falls at stamp `2s`; what happens after it and before the next
bears stamp `2s + 1`; price and rate are one, so an amount is the number of
lots exposed. A timeline is a set of transitions read in the order of their
effects (`Follows`), which is what the list of the code, appended to and sorted
by date, is read as. `Publish` shows slots late, out of order and without a price;
`PollInitial`, `PollRead` and `PollFails` read them; `Accepted` keeps the
contiguous ones, `Settle` books each with the cursor and the cash in one commit
at `ExposureAt` of the timeline. `Trade` and `RecordTransition` are two
commits, `ObserveStop` dates a venue's stop when it is observed, `Restart`
rebuilds a timeline and resolves the incident it can. A behaviour may begin with
the database of an older release (`OldPosition`, `OldStop`), which
`RepairTimeline` and `Adjust`, the operator's
`scripts/reconcile_trend_stop_funding.py`, make good, killed and run again as they may be.

`LedgerIsExact`: every movement of cash has its row (`LedgerIsCash`), the
cursor cuts the ledger (`CursorCutsLedger`), each settlement is at what was
held at its time (`SettledAtExposure`). The last speaks of fills the timeline
knew by then (`KnownAt`), which excludes two windows of the code: a crash
between the finalisation and the timeline, and a stop dated when observed.
`PaymentsAreSettled`: a priced payment behind no hole is settled, unless the
position loses its history or the unit stays failed: an uncertain payment ends
the process, and `Restart` counts against the start limit as `Boot` of
`ProtectiveStop` does.

## 5. Carry

### Two legs: `CarryTwoLeg`

Long spot, short perpetual, one leg at a time, each leg a commit. `row` is the
checkpoint, `mem` the process, `tick` what the running tick has read, `held`
the short at each slot's boundary, `paid` the quantity each payment was
computed on. `LoadState` restores a transition the row shows unfinished;
`BeginTick` to `Hold` follow one tick: funding, market outage, timeout, kill
switch, signal; `OpenSpot`, `OpenPerp`, `OpenMark`, `ClosePerp`, `CloseSpot`,
`CloseEnd`, `AfterClose` are the commits of a transition, any of which the
store may refuse (`OpenFails`, `CloseFails`). A fill is none, part or all;
prices and fees are left out. `torn` marks the windows in which a crash or a
refused write loses a fact for good (`LosesAFact`: the date of a second entry,
the note of an unsettled reduction).

`StateMatchesLegs`: hedged means equal legs, flat no leg, no margin, no intent;
no leg without its margin. `FundingExact`: the cursor passes a slot only when
its payment was applied to the short held then. `TransitionsTaken`: a partly
hedged or exiting row is taken up, or the engine blocks for an operator, if it is
started again after each stop.

### Dated: `DatedCarry`

Spot against a short future, daily settlements booked from the venue's public
history, expiry, sale of the spot. Every ledger transition is one commit of an
event with the checkpoint (`led`, `booked`). `Publish` shows a settlement late,
out of order or corrected; `ReadHistory`, `Audited`, `Settle`, `SettlementGap`,
`SettlementCollision` are the settlement pass; `BeginEntry`, `BuySpot`,
`SellFuture`, `FinishEntry`, `RecoverOpen`, `RecoverByClosing` the entry and
what a crash leaves of it; `ProtectiveClose`, `Cover`, `SellSpot`,
`ClassifyDust` the close; `RecordLiquidationTiming`, `LiquidateSpot` the
expiry. A settlement is its day, its content a version, the cash whether it
covers the reserves.

`VariationsExact`: each day of the holding period is in the cash once, with its
event, no day jumped. `NeverNakedShort`. `CorrectionNoticed`: a cycle that goes
on to the risk control has compared all it booked with the present record.
`HalfOpenCompensated`: an entry left with one leg is sold back by an engine that
is started again after each stop. It is not about a close left unbalanced
(section 9, *Dated close*).

## 6. Supervision and tools

### `Monitoring`

`watch` is a run of the watchdog, engine by engine (`CheckAge`, `ReadHealth`,
`SyncCondition`, each record or resolution a commit, `Notify` afterwards);
`reader` an evaluation of the readiness or the status command, each of whose
reads (`ReadDatabase`, `ReadIncidents`, `ReadSafety`, `ReadAges`, `Collect`) is
a transaction of its own. Meanwhile engines degrade and recover, the required
profile changes, a read fails, a run is cut. `held` collects the facts that
have held since the evaluation began, so that "never favourable over a lasting
fact" can be said.

`ToldWhenOpened`: an open incident was announced once, unless a cut run still
owed the notice. `VerdictIsSafe`. `IncidentFollowsCondition`: of an engine
required for good, a lasting condition has an open incident and a finished one
none. `ReadinessReturns`: a service whose engines are safe and fresh for good is
ready again, unless an engine left the profile with its incident open.

### `Qualification`

Each command (`cmd`) is a process that opens a connection per read: `Collect`
and `Record` the technical evidence; `Bind` and `Insert` a campaign; `CheckBinding`,
`Evaluate` and `Finish` it, as of the moment the report was generated;
`ReadPassed` and `Admit` at the gate. Engine,
incidents, other commands and a release switch move between any two steps.
Only CRITICAL incidents are there, and the performance criteria are a
nondeterministic verdict. `Covered` is the interval merge of
`_availability_from_timestamps`.

`AdmissionIsBound`: what the gate admits stands on a passed campaign of the
active release, bound to a record of that release, and no later command takes
the campaign back. `CoverageIsExact`: the merge equals the count of covered
ticks, for every set of samples and every window (up to `Horizon` in the run).

### `Tools`

- `Deployment`: `update.sh` in its three modes, one action per command:
  quiescence, backup, migration, links, units, starts, health. A failed command
  runs the trap (`Trapped`) or, inside a function, ends the script silently
  (`Silent`), since bash functions do not inherit the ERR trap. `NoWriteLost`:
  restoring the copy taken before a migration loses no write. `RunningCodeFits`:
  no unit that opens the store for writing runs on a schema its code does not
  implement. The dashboard is the one reader (`ReadOnly`): a read-only opening
  checks no schema (`exec/state_store.py:202-205`), so after an undone migration
  it may serve newer code on the older one, and the property leaves it out.
- `RecoveryGate`: captures one database after the other, retention, staging, one
  marker per scope, that of an absent optional database included, before the copy
  is published, and writers that start only
  where no marker stands. The operator's reconciliation is external.
  `FencedUntilReconciled`: no writer runs on a database behind the world.
- `Schema`: an opening is *two* transactions, because the second
  `executescript` commits the first half; several processes open, create,
  migrate and die. `OpensWhole`: an engine at work finds the whole schema of its
  version, and the trades of older releases once.
- `WalkForward`: runs of one frozen experiment share the trial registry and its
  budget. `SearchIsJust`: a trial is evaluated at most once, within the budget,
  and a selection misses no better success known when its fold began.
- `Sealing`: blind datasets, holdouts evaluated outside the transaction that
  keeps the result, a policy frozen in two transactions. `SealsHold`: every
  result ever returned is the one kept, and a policy that verified once verifies
  for good.
- `Collector`: a cycle with its open transaction; files are written before the
  commit; the copy of the segments takes no lock. `EvidenceKept`: a recorded
  observation leaves the database only for a segment that verified, and
  overlapping segments can be restored together.
- `Cutover`: the operator reads the checkpoint, then applies a cutover to that
  very hash while no engine holds the lock; engines start under either model,
  tick, stop cleanly, die. `CutoverLosesNothing`: a running engine's origin is
  the checkpoint, and the equity is what was booked, unless a two-leg engine was
  started on a row no model cutover prepared (`bare`).

## 7. Runs, bounds, fairness

| Run | Question | Bounds |
|---|---|---|
| `external` | two processes on one store, a crash, a swallowed store fault: submissions, accounting, book, latch | 2 symmetric processes, `Lot = MaxBar = MaxSeq = 2`, `MaxCrash = MaxFault = 1` |
| `external_single` | one process through two crashes: sole exposed order, refinement, conclusion | `Lot = MaxBar = MaxSeq = 2`, `MaxCrash = 2`, `MaxFault = 0` |
| `settlement_pass` | three passes over an order of two trades | `Requested = 2`, `MaxPass = 3`; one trade with two payloads, two trades with one id |
| `paper_order` | two kills and a swallowed fault | `MaxBar = MaxSeq = MaxLot = MaxCrash = 2`, `MaxFault = 1` |
| `stop_saga` | two crashes, lost replies, fills and cancels at any moment, a unit given up | `Lot = Burst = 2`, `MaxStop = 3`, `MaxCrash = 2` |
| `capital_flow` | wrappers alone or overlapping, engines that trade, crash, latch; reboots | 60/40 of capital, `Amounts = {0, 20}`, `Gains = {10}`, `MaxTrade = 1` |
| `funding_replay` | late, unpriced, out-of-order payments; repair; a unit given up | `MaxSlot = MaxLot = MaxFill = MaxCrash = 2`, `MaxFault = Burst = 1` |
| `carry_legs` | a failure between any two commits of two entries | `Qty = 2`, `MaxSlot = 3`, `MaxEntry = 2`, `MaxFailure = 1` |
| `dated_carry` | two entries, an expiry, a corrected history | `Qty = 2`, `Minimum = Tolerance = 1`, `Expiry = 3`, `MaxEntry = 2`, `MaxFailure = 1` |
| `monitoring` | two engines, two conditions, both lists non-trivial | `Profile = {trend}`, `MaxChange = 2`, `MaxFault = 1` |
| `qualification` | two commands beside a switch | two releases, `MaxTime = 2`, `MaxCalls = 5`, `Horizon = 5`, one switch, one order |
| `tools` | one tool per behaviour | `MaxDeploy = 3` with `MaxFault = 2`; two restorations with a fault; four openings over six versions; two runs with a fault; three evaluations; three ticks with one damage; three bookings; a crash each |

Why the bounds are enough. Two lots distinguish nothing, a part and the whole;
two bars and two sequence numbers give an entry and an exit, or two successive
attempts with the first closed without effect, and a kill-switch exit beside a
bar's. Two crashes hit an operation and then its recovery; where one crash is
allowed, the recovery is a single step or the same operation again. Three stops
are an entry, a replacement and the replacement of the replacement. One gain of
10 on 60/40 is a drift of more than three points, a deposit of 20 is not, and
both together are. Two entries show what the first position leaves to the
second; three slots or days allow a gap with something on each side. Three
passes are a lagging, a contradicting and a clean one. Three deployments are a
migration, its rollback and one more; six schema versions are an absent
database, the current one and one on each side of every rebuilt table. A start
limit below the deployed five makes a unit fail earlier, and as a window may be
over at any start, starts still go on without end. Faults are counted because an
unbounded number of them would starve everything; the proofs assume nothing of
the bounds.

Each property has a mutated form of one definition of its model (a dropped
guard, a swapped order, a missing reset; `PROJECT.json`, "mutants") under which
TLC finds it violated: what a property says depends on the code.

Symmetry is used in `external`, `qualification` and `tools`, whose temporal
properties are action properties only.

Fairness, where liveness is checked:

- *weak fairness of a process's step* (`Step`, `Saga \/ Cycle`, `Order`): a live
  process moves. A crash, a fault, a step of the venue have none;
- *restarts*: the units have `Restart=on-failure` or `always`, but with
  `StartLimitBurst=5` in `StartLimitIntervalSec=600`
  (`deploy/btcquant-trend.service:5-6`, and so the carry, the testnet, the shadow
  and the dashboard; `tests/test_security_hardening.py:441-451` demands it). A
  start is fair only within the limit, and nothing is asked of the operator who
  resets a unit that reached it. `ProtectiveStop` and `FundingReplay`, where a
  failed resumption or an uncertain payment ends the process, have the limit as
  state; their liveness properties suppose `[]<>~failed`. `ExternalOrder`,
  `PaperOrder`, `CarryTwoLeg` and `DatedCarry` give a process that is down no
  fairness at all; theirs suppose that a process is up again and again;
- *strong fairness of an answer* (`LookupAnswers`, `CancelAccepted`,
  `VerifyTerminal \/ VerifyExecuted`; `PollRead`; `ReadHistory`,
  `ResumeClose`, covers and sales that execute something): the question is asked
  again at every cycle or start, and a venue that answers infinitely often is
  heard. Weak fairness would not do, since each failed attempt disables the
  step. `CommittedOrderConcludes` needs none: an unanswered lookup hands the
  order to the operator;
- *strong fairness of `EnforceTimeout`*: the age of a transition only grows, so
  the timeout is not found early for ever;
- *weak fairness of `Arrives`*: an order in flight is eventually indexed or
  dropped;
- *capital*: a shell script that is not killed reaches its end, the daily timer
  fires for ever, the save is not the step that fails every time;
- *monitoring*: the timer runs the watchdog every two minutes, and the probe of
  the readiness asks for ever;
- *funding repair*: an operator who started it lets it end.

`CHECK_DEADLOCK FALSE` where a behaviour may really end (a latched engine stays
down for a human, a history is bounded). `capital_flow` and `monitoring` have no
such end and check deadlock.

## 8. Theorems and proofs

All constants are arbitrary, under the named assumptions of the modules:
quantities, bounds and thresholds are naturals, a lot, a position, a start limit
or a number of funding slots is positive, a contract expires after its first day, the tolerance
of a hedge is less than a position, the payloads a venue can deliver are finitely
many and two of one trade agree on its quantity,
the empty lock is not a process, releases and unit states have different names,
the two lists of conditions name conditions that exist, an evidence gives each
domain a verdict, the restore order is a sequence that covers the scopes
(`LotAssumption`, `BoundAssumption`, `InstanceAssumption`, `FaultAssumption`,
`StopAssumption`, `CapitalAssumption`, `QtyAssumption`, `SlotAssumption`,
`ReleaseAssumption`, `UnitsAssumption`, `ProcessAssumption`,
`MonitoringAssumption`, `ListAssumption`, `EvidenceAssumption`, `TimeAssumption`,
`BoundsAssumption`, `FaultsAssumption`, `ExpiryAssumption`, `ToleranceAssumption`,
`PayloadsAssumption`, `FundingBounds`, `FundingFaults`,
and `ToolsAssumption`, which gathers those of the instantiated tools). Any number
of processes, crashes, faults, stops, slots, deployments and commands is covered.

*External orders* (`ExternalOrderProofs`). Safety rests
on `SafetyInv`, which never speaks of the memory of a process - the faults make
it arbitrary - only of journal, venue and submission in hand: `OneOwner` (a
process past its constructor holds the flock); `RowFollowsProcess` (the row in
hand is at the process's step; needs `OneOwner`, another process would move it);
`SentOnce` (the venue knows exactly the orders sent, and a sent order's row may
never be submitted again); `EvidenceChain`, `ClosedTruthfully`, `ClosedStatus`
(response, settlement, application and closure each rest on the previous record,
down to what the venue did). Consequences: `SubmittedOnce`, `OwnersExclude`,
`ClosedHidesNothing`, `AccountingExact` and the action property
`ConclusionsStand`.

*The book* (the second half of `ExternalOrderProofs`). Here memory counts, and a swallowed fault is
excluded where the code loses the promise (section 9, *Stale checkpoint*).
`BookInv` = `RowsAgree` (an applied order's row is observed or terminal, its plan
has its sequence, an entry is planned from a flat position) and, while
`faults = 0`, `LoopInv` and `BookBalances`. `LoopInv` says that a process holds
the durable position wherever it may save it (`MemoryFollows`), works without a
latch only (`LatchStops`) and finalises what its own pass applied
(`PassAdvances`). `BookBalances` counts: the durable position with the executed
lots not yet applied is the venue's net position; at every step one lot or one
order moves between the terms. `BookMatchesVenue` and the action property
`LatchedEngineIsSilent` follow; the refinement `ImplementsPromise` is proved step
by step under `[](faults = 0)` (`PromiseKept`), and `SoleExposedOrder` for one
process with `SoleInv`, which adds that nothing but the order in hand is
unresolved when the loop goes round (`HandHolds`). From the same invariant and
`BookBalances`, `CycleDecidesOnTruth`: wherever that process checks, halts, looks
at a bar or saves, the position in its memory is the venue's and no order is
unresolved. Two processes break `SoleExposedOrder`, as
section 9 (*Two instances*) says.

*PAPER* (`PaperProofs`). `PaperInv` = types; `RowsFit` (a plan takes the
whole position it was made from or enters from none, a fill is a part of what was
asked and is observed before it is applied); `HandFits` (the order in hand has a
fill only once its evidence is durable: a reclaimed order starts again without
one); and, while `faults = 0`, `MemoryFollows` (the loop holds the durable
position except between an application and the reload that follows) and
`Balance`, counted lot by lot. `BookIsLedger` needs all of them: a checkpoint is
harmless because the memory follows, an application stays within bounds because
the plan still names the durable state. `LedgerIsBook`.

*Stops* (`ProtectiveStopProofs`). `StopInv` = `Shape` (what a checkpoint says of
its own transition), `Synced` (memory is the checkpoint up to the phase and to a
cancellation prepared by an exit), `Steps` (what each step knows), `Unsent`
(only `PLACING` proves that nothing was sent), with `AtMostOnePlacement` and
`NoOrphanStop`, which need each other. `PlacedOnce`, `NoStopForgotten`,
`NeverNaked` and the action property `OldStopKept` follow.

*Capital* (`CapitalProofs`). `CapitalInv` = types, `DepositsCountedOnce`,
and, while exclusive, `Accounted` and `Undisturbed`: the memory of a running
engine is its row, a job holds the units stopped, the rows it loaded are still
those of the store. `Accounted` alone is not inductive: a save would bring back
an old row. `CapitalNeverLost`, `DepositsOnce`, `CapitalAtRest`, `LatchStays`.

*Funding* (`CapitalProofs`; its specification is `FundingSpec`). `FundingInv` =
types; `MovesFit` (every transition that the row, memory, the journal or the
observed stops hold is a fill of the venue, dated when it was or later, one per
intent, the effects in the order of the fills) and `LastFits` (a trade in the
middle of its two commits is the last fill); `MemoryAgrees` (memory is ahead of
the row by transitions only); `QueueFits` (the payments of a poll are the next
ones, without a hole); `LedgerFits` (while an observed stop is missing from the
timeline, every settlement made is one the repair still looks at);
`SettledRight` (a settlement is what *both* timelines say: a later transition
bears a later stamp, and a checkpoint may make either the durable one);
`JournalFits` (a timeline lost with its position is rebuilt before anything is
settled on it); with `LedgerIsCash`, by counting the lots paid (`LotsChange`),
and `CursorCutsLedger`. `SettledAtExposure` alone is not inductive: it says
nothing of memory, which the next checkpoint writes. `ExposureIsHeld` carries
`SettledRight` to the venue: of the transitions dated by then, the last in
intent is the one in force. `FundingIsExact`.

*Tools* (`ToolsProofs`). A step of `Tools` is a step of one component and leaves
the variables of the others alone; the theorems are about `ToolsSpec`.

- *Cutover*: `CarryInv` adds that a two-leg balance comes with the two-leg model
  and is worth what was booked unless its engine may not trade
  (`BalancesAreWorth`). `CutoverIsSafe`.
- *Recovery gate*: `GateInv` says where a mark must already be: a restoration
  has marked every scope of the order it has passed (`JobMarks`), all that waits
  to be installed is marked (`CopyMarked`), staging holds no other status
  (`StagingMarks`), and a database that is not the world's is marked at runtime
  (`DivergenceMarked`). `WritersAreFenced`.
- *Opening*: between its two transactions an opening relies on a version it read
  and on objects created (`HalvesMeet`); the journal is imported whole or not at
  all (`JournalWhole`). `OpeningIsWhole`, for any number of processes that open
  and crash.
- *Sealing*: an evaluation reads back a holdout that is spent (`CallsKnow`), and
  no step unspends one. `SealsAreKept`, an action property.
- *Search*: what a run ranks agrees with the rows and misses no success it knew
  (`RunsJust`), a trial in evaluation belongs to one run and has its status
  (`TrialsOwned`), a selection's candidates succeeded (`SelectionsKnown`).
  `SearchStaysJust`, for any number of runs that share the budget.
- *Evidence*: `EvidenceInv` numbers the observations (`Numbered`, `AddedNext`),
  says what a cycle in the middle of an archive works on - whole days of due
  rows (`GroupsWhole`, `RemovedWhole`), the segment it has just written
  (`SegmentAtHand`), removed rows that are in a sound segment (`RemovedFiled`) -
  and that a segment on the disk is of one due day, with all of its rows in the
  database or none (`SegmentsWhole`). That last part makes a crash between the
  segment and the deletion harmless: the next cycle finds the same day, writes
  the same name and the same content. `EvidenceStaysKept`.
- *Deployment*: `DeployInv` adds what the script knows at each step: its
  arguments exist (`ArgumentsExist`), no writer is up while a migration may still
  be undone (`WritersDown`), the copy an undoing restores holds every write
  (`CopyIsCurrent`), and the flags `MIGRATION_COMPLETED` and
  `TARGET_WRITES_STARTED` are true (`FlagsAreTrue`). These make the trap's choice
  between restoring and failing closed safe: `NothingIsLost`, and `CodeFitsSchema`
  for the units that write (of the dashboard, which checks no schema, it says
  nothing).

*Monitoring* (`MonitoringProofs`). `TellInv`: what a run still has to announce is open
and has not been told (`Announced`), and of the conditions it has left to
synchronise each is there once and none is waiting to be announced (`RunOK`):
otherwise one could be resolved, or recorded again, before its notice.
`AnnouncedOnce`. `VerdictInv` follows one evaluation of the readiness: each
favourable read leaves one kind of fact fewer among those that may have held
until now (`Excluded`: no incident, then no condition, then nothing), and status
0 is the answer of a ready service with its evidence (`Answered`).
`VerdictStaysSafe`.

*Carry* (`CarryTwoLegProofs`). `CarryInv`: row and memory are each sound,
memory agrees with the row between commits, each phase of a transition knows
its legs and its reason (`PhaseFits`, `ClosePerpFits`, `CloseFits`), and
`FundingFits`: every slot beyond the cursor waits for a payment on the short
now held, or the engine is stopped, undated or owes the note of a reduction.
The funding property alone is not inductive: a close with an unpaid slot behind
it would break it. `LegsMatchState`, `FundingIsExact`.

*Dated carry* (`SettlementProofs`). `DatedInv` = types; `Cursors` (a position
audits from the first settlement it booked, its last one is not ahead of the
clock, and an expired contract's history is read only from a cursor);
`Published` (what was booked had been published); `StepFits` (what a phase of a
cycle knows of the legs), with the two safety properties. `VariationsExact`
needs the cursors: the very first settlement may be the expiry by itself, which
skips no day only because an expired contract without a cursor is never read.
`VariationsAreExact`, `ShortIsHedged`, and the action property
`CorrectionsAreNoticed`: every day of the position is one the audit compares,
since it was published and lies after the cursor.

*Settlement passes* (`SettlementProofs`; their specification is `PassSpec`).
`PassInv` = types; `Unanswered` (a pass has no event before it journals one);
`ObservedOnce` (an observation names a pass that was told its snapshot);
`AnswerFits` (a settlement in hand adds up to the commitment, its pass was told
the end of the order, and its rows are in the journal once its last fill read
is); `SettlementsFit` and `AppliedFits` (behind every settlement journaled or
applied is a pass that was told the end). `SettlementIsJust` follows by counting
lots: rows without ambiguity are of different trades, and rows of different
trades that add up to the commitment are all of its trades (`RowsWeigh`,
`TradesWeigh`); whatever blocks a complete pass of a consistent venue
(`ConsistentIsClean`) is an earlier pass that was told the same end
(`ToldTwice`). `ConflictNeverForgotten` needs only that the journal grows and
that a conflict of a journal is one of every longer journal (`ConflictStays`):
more fills may make an excess ambiguous, but not harmless.
`SettlementsAreJust`, `ConflictsAreNotForgotten`.

*Qualification* (`PaperProofs`: what the PAPER engines are qualified by; its
specification is `QualificationSpec`). `QualificationInv`: a command in the
middle of its steps names a campaign that exists, and the gate one that has
passed (`CommandsFit`), the campaign of an admission exists (`Standing`), with
`BoundToItsRecord` and `AdmissionIsEarned`: campaigns are only appended, and a
passed one is never finished again. `AdmissionBound`. `CoverageIsExact` is about
the algorithm alone and needs no invariant: `Merged` is a function over the
ticks, which exists (`RecursionExists`, `MergeExists`) and of which every value
has counted the ticks the samples so far cover, the open interval being the last
of them (`MergeFits`, `MergeStepFits`). The inductions are over a bounded set of
numbers, by its least member that fails (`NoLeastFailure`). `MergeIsExact`, for
any samples and any interval, and `CoverageMeasures`.

Model-checked only: liveness, since fairness and `ENABLED` are beyond the
installed provers. Every invariant and every action property that a run checks
is a theorem, and so is the refinement `ImplementsPromise`; what a run adds to it
is that the actions all happen, and that a mutated code breaks it.

## 9. Where code and text differ

The properties are stated around these places, which the models reproduce and
which are named in the "hazards" of `PROJECT.json`. In each, the code does
something other than what a comment or a document of the repository says.

Orders and engines

- *Timeline* (`exec/runner.py:1251`): the finalisation of an order and the
  record of its transition are two commits. A crash between them loses the
  transition funding replays from, since the startup repair reads
  `financial_fill_applications` only, which external settlements do not fill.
- *Kill switch* (`exec/runner.py:2611`, "tente la liquidation à chaque tick"):
  its intent is a stable identity. After one answer without a match the intent
  names a `CANCELED` row, the submission raises, and so does every restart.
- *Two instances* (`exec/runner.py:1738-1740`, "avant toute autre émission"): a
  process built while another loops reloads the state when it takes the lock,
  not the recovery: it may send an order beside an unresolved one.
- *Stale checkpoint* (`exec/runner.py:2852`, "on continue"): a store error after
  the atomic application is swallowed before the state is reloaded, and the next
  checkpoint overwrites the applied position.
- *Latched order* (`exec/runner.py:579`): a store error while the latch is saved
  leaves it in memory; the next reservation tests the durable latch only, saves
  the memory and the order is sent.
- *Stop saga* (`exec/runner.py:822`, against 659-664): a placement in phase
  `SUBMITTING` that never reached the venue is neither resumed, nor sent again,
  nor latched at any restart.
- *Outage* (`deploy/btcquant-hyperliquid-testnet.service:7-8`, against
  `exec/runner.py:659-664`, "une panne réseau n'exige donc pas encore une décision
  humaine"): each resumption the network prevents ends the process, and after
  five starts in ten minutes the unit stays failed until an operator resets it.
- *Second pass* (`exec/resolution_projection.py:338`, against
  `external_evidence.py:224`): the identity of an observation leaves out
  `observed_at`, the projection demands an equal one; an order whose first pass
  saw the snapshot but did not settle is manual for ever.
- *PAPER* (`README.md:444`, "abandon automatique"): an interrupted order whose
  fill is durable is applied and finalised, not abandoned; a rejected one stays
  `PENDING_RECONCILIATION` until a restart, and a rejected soft-stop or
  kill-switch exit stops the process at each start (`exec/runner.py:1692`).

Capital, carry, tools

- *Manual deposit* (`README.md:406-414`): the documented direct command takes no
  lock; beside running engines, their next checkpoint overwrites the deposit.
- *Dated close* (`exec/carry_dated_runner.py:616`, against
  `docs/ADR_CARRY_DATED_PAPER.md:141-143`): a cover that leaves the cash negative
  and a partial sale end in an `UNBALANCED` no later cycle resumes.
- *Dated expiry* (`exec/carry_dated_runner.py:153`, against line 139 of the same
  document): a close still in progress at the expiry never reads the settlement.
- *Deployment* (`deploy/update.sh:549`, against
  `docs/DEPLOYMENT_RUNBOOK.md:186-187`): a command that fails inside a function
  ends the script without the trap, with `current` on the failed release.
- *Release switch* (`README.md:508-510`): a release switched away and back does
  not disturb the campaign bound to it.
- *Schema* (`exec/state_store.py:338-340`, 519-520): the creation is said to be
  one transaction and is two; a crash between them leaves tables without a
  version, which every later opening refuses.
- *Collector* (`research/carry_dated_collector.py:939-943`): restored
  settlements are not idempotent, their payload holds `received_at`.
- *Cutover* (`exec/carry_cutover.py`): a two-leg engine started on a synthetic
  open row and stopped cleanly can never be cut over; a configuration rolled
  back after a model cutover makes the next one impossible (the archive row
  exists, line 649).

## 10. What is not modelled

- *In the order modules*: pyramiding, since no qualified broker pyramids;
  several slots; equity rows and notifications; retries inside read-only calls;
  soft stops of an external broker; incident rows of the stop saga.
- *In `CapitalFlow`*: the rescaling of the risk baselines, the split between the
  slots of trend, the simulation mode (it writes nothing).
- *In `FundingReplay`*: short positions, prices and rates.
- *In the carries*: prices, fees, margin models; the decisions to enter and exit
  are nondeterministic. The synthetic carry is in `Cutover` only.
- *In `Monitoring` and `Qualification`*: the content of messages, thresholds,
  incidents below CRITICAL, performance criteria.
- *In the tools*: the construction and the checks of a release; table contents
  in `Schema`; attempts and event tables of the registry, contents of policies;
  book quality, quotas and VACUUM in `Collector`, damage to its manifests; schema
  and marker checks, orders and NO_OP branches in `Cutover`.
- *Floating-point arithmetic* everywhere: tolerances (`exec/reconcile.py:39`),
  rounding to the venue's quantum, fees, risk thresholds.
- *Whole components*: strategies, indicators, regime, market data, backtests and
  studies are numerical and have no protocol; their decisions are
  nondeterministic. Dashboard, digests, operator reports, the shadow engine and
  the testnet preflight only read. Carry contracts and policy are pure
  validation. Entry points read a configuration and build the engines.
- *Hazards without a property*: the kill-switch retry, the latch a store error
  keeps in memory, the transition lost between two commits and the reconciliation
  tolerance, all above, and the collector's settlement cursor
  (`research/carry_dated_collector.py:944`), taken from live rows only. Parts of
  others: wrappers that overlap, a replay that stays closed, a dated close left
  unbalanced. Their notes in `PROJECT.json` say why.
