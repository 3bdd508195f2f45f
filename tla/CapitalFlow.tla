---- MODULE CapitalFlow ----
(***************************************************************************)
(* The capital shared by the two paper engines: deposits, the 60/40 transfer *)
(* between them, the wrapper that stops and restarts their units around it,  *)
(* and the checkpoints the engines go on writing from memory.               *)
(*                                                                         *)
(* One step is one SQLite transaction, one read of the store or one          *)
(* systemctl call.  Amounts are integers, multiples of ten, so that the      *)
(* shares are exact; the cash of the slots of trend is one sum.  The risk    *)
(* baselines, rescaled with the cash, are left out.                         *)
(***************************************************************************)
EXTENDS Integers

CONSTANTS
    Jobs,           \* who runs btcquant-rebalance: "monthly", "pending", "manual"
    InitialCash,    \* [Engine -> Nat]
    Amounts,        \* values MONTHLY_DEPOSIT takes (0: not set)
    Gains,          \* what one trade wins or loses
    MaxTrade        \* bound on the trades

Engine == {"trend", "carry"}

ASSUME CapitalAssumption ==
    /\ Jobs \subseteq {"monthly", "pending", "manual"}
    /\ InitialCash \in [Engine -> Nat \ {0}]
    /\ Amounts \subseteq Nat /\ 0 \in Amounts
    /\ Gains \subseteq Int
    /\ MaxTrade \in Nat

VARIABLES
    db,         \* [Engine -> Row]: table engine_state
    deposits,   \* [DepositId -> Deposit]: table capital_deposits
    flowed,     \* [Engine -> Int]: sum of the engine's column of table flows
    unit,       \* [Engine -> Unit]: the engine's systemd unit
    mem,        \* [Engine -> Row]: the running process
    job,        \* [Jobs -> Job]
    earned,     \* [Engine -> Int]: history: what the trades won
    exclusive,  \* history: no two jobs ran at once, none beside the engines
    trades

durable == <<db, deposits, flowed>>
engines == <<unit, mem>>
history == <<earned, exclusive, trades>>
vars == <<durable, engines, job, history>>

Row == [cash : Nat, open : BOOLEAN, latch : BOOLEAN]
EmptyRow == [cash |-> 0, open |-> FALSE, latch |-> FALSE]
Unit == {"up", "starting", "stopped"}     \* starting: asked of systemd, which
                                          \* tries up to its start limit

(* monthly:YYYY-MM, of the month in progress, and one manual identifier:    *)
(* each belongs to the job that asks for it.                                *)
DepositId == Jobs \ {"pending"}
Deposit == [status : {"NONE", "PENDING", "APPLIED"}, amount : Amounts]
NoDeposit == [status |-> "NONE", amount |-> 0]

InStatus(status) == {d \in DepositId : deposits[d].status = status}
Pending == InStatus("PENDING")
AmountOf(ids) ==
    LET of(d) == IF d \in ids THEN deposits[d].amount ELSE 0
    IN  of("monthly") + of("manual")

(* A run of the entry point and of its wrapper: its step, the two rows it   *)
(* loaded and the deposits it read.                                         *)
JobStep == {"idle", "probe", "stop", "trend", "carry", "register", "read", "save", "restart"}
Job == [at : JobStep, rows : [Engine -> Row], ids : SUBSET DepositId]
IdleJob == [at |-> "idle", rows |-> [e \in Engine |-> EmptyRow], ids |-> {}]

Init ==
    /\ db = [e \in Engine |-> [EmptyRow EXCEPT !.cash = InitialCash[e]]]
    /\ deposits = [d \in DepositId |-> NoDeposit]
    /\ flowed = [e \in Engine |-> 0]
    /\ unit = [e \in Engine |-> "starting"]
    /\ mem = [e \in Engine |-> EmptyRow]
    /\ job = [j \in Jobs |-> IdleJob]
    /\ earned = [e \in Engine |-> 0]
    /\ exclusive = TRUE
    /\ trades = 0

(* A definition called a mutant is a deliberate mistake: a property is      *)
(* violated when it takes the place of the definition it names.             *)

(* _checkpoint_payload: a checkpoint never clears a durable latch.          *)
Checkpoint(e, row) == [row EXCEPT !.latch = row.latch \/ db[e].latch]

(* -- the engines -------------------------------------------------------- *)

(* Both runners load their row; trend refuses to run latched.               *)
Boot(e) ==
    /\ unit[e] = "starting" /\ ~db[e].latch
    /\ unit' = [unit EXCEPT ![e] = "up"]
    /\ mem' = [mem EXCEPT ![e] = db[e]]
    /\ UNCHANGED <<durable, job, history>>

(* Every tick ends with a checkpoint of the whole row, taken from memory.   *)
SavesRow(e, row) ==
    /\ mem' = [mem EXCEPT ![e] = row]
    /\ db' = [db EXCEPT ![e] = Checkpoint(e, row)]
    /\ UNCHANGED <<deposits, flowed, unit, job, exclusive>>

Tick(e) ==
    /\ unit[e] = "up"
    /\ SavesRow(e, mem[e])
    /\ UNCHANGED <<earned, trades>>

Enter(e) ==
    /\ unit[e] = "up" /\ ~mem[e].open /\ trades < MaxTrade
    /\ SavesRow(e, [mem[e] EXCEPT !.open = TRUE])
    /\ trades' = trades + 1
    /\ UNCHANGED earned

(* A bound of the model: no trade ruins an engine. *)
Exit(e) ==
    /\ unit[e] = "up" /\ mem[e].open
    /\ \E gain \in Gains :
          /\ mem[e].cash + gain > 0
          /\ SavesRow(e, [mem[e] EXCEPT !.open = FALSE, !.cash = mem[e].cash + gain])
          /\ earned' = [earned EXCEPT ![e] = earned[e] + gain]
    /\ UNCHANGED trades

(* _require_manual_reconciliation, trend only: the latch is saved and the   *)
(* process exits; systemd tries it again, in vain.                          *)
LatchTrend ==
    /\ unit["trend"] = "up"
    /\ db' = [db EXCEPT !["trend"] = [mem["trend"] EXCEPT !.latch = TRUE]]
    /\ unit' = [unit EXCEPT !["trend"] = "starting"]
    /\ mem' = [mem EXCEPT !["trend"] = EmptyRow]
    /\ UNCHANGED <<deposits, flowed, job, history>>

EngineCrash(e) ==
    /\ unit[e] = "up"
    /\ unit' = [unit EXCEPT ![e] = "starting"]
    /\ mem' = [mem EXCEPT ![e] = EmptyRow]
    /\ UNCHANGED <<durable, job, history>>

(* -- the wrapper -------------------------------------------------------- *)

At(j, step) == job[j].at = step
Goes(j, step) == job' = [job EXCEPT ![j].at = step]

(* The EXIT trap restarts the engines, whatever the entry point returned; a *)
(* direct call of the entry point has no wrapper.                           *)
Leave(j) ==
    job' = [job EXCEPT ![j] =
              [IdleJob EXCEPT !.at = IF j = "manual" THEN "idle" ELSE "restart"]]

Start(j) ==
    /\ At(j, "idle")
    /\ Goes(j, CASE j = "monthly" -> "stop" [] j = "pending" -> "probe"
                 [] j = "manual" -> "trend")
    /\ exclusive' = (exclusive /\ j # "manual" /\ \A k \in Jobs : At(k, "idle"))
    /\ UNCHANGED <<durable, engines, earned, trades>>

(* --check-pending: without a pending deposit the engines are not stopped.  *)
Probe(j) ==
    /\ At(j, "probe")
    /\ Goes(j, IF Pending = {} THEN "idle" ELSE "stop")
    /\ UNCHANGED <<durable, engines, history>>

(* Mutant of StopEngines: carry is left running.                            *)
StopTrendOnly(j) ==
    /\ At(j, "stop")
    /\ unit' = [unit EXCEPT !["trend"] = "stopped"]
    /\ mem' = [mem EXCEPT !["trend"] = EmptyRow]
    /\ Goes(j, "trend")
    /\ UNCHANGED <<durable, history>>

(* systemctl stop returns when both units are inactive.  A clean shutdown   *)
(* saves a last checkpoint; a process killed after TimeoutStopSec does not. *)
StopEngines(j) ==
    /\ At(j, "stop")
    /\ \E clean \in SUBSET {e \in Engine : unit[e] = "up"} :
          db' = [e \in Engine |-> IF e \in clean THEN Checkpoint(e, mem[e]) ELSE db[e]]
    /\ unit' = [e \in Engine |-> "stopped"]
    /\ mem' = [e \in Engine |-> EmptyRow]
    /\ Goes(j, "trend")
    /\ UNCHANGED <<deposits, flowed, history>>

RestartEngines(j) ==
    /\ At(j, "restart")
    /\ unit' = [e \in Engine |-> IF unit[e] = "stopped" THEN "starting" ELSE unit[e]]
    /\ Goes(j, "idle")
    /\ UNCHANGED <<durable, mem, history>>

(* -- the entry point ---------------------------------------------------- *)

(* load_engine_state, trend then carry. *)
Load(j) ==
    /\ job[j].at \in Engine
    /\ LET e == job[j].at IN
       job' = [job EXCEPT ![j].rows[e] = db[e],
                          ![j].at = IF e = "trend" THEN "carry" ELSE "register"]
    /\ UNCHANGED <<durable, engines, history>>

(* register_deposit: once per identifier; another amount is refused.        *)
Register(j) ==
    /\ At(j, "register")
    /\ \E a \in Amounts :
          CASE a = 0 \/ j = "pending" -> Goes(j, "read") /\ UNCHANGED deposits
            [] a # 0 /\ j # "pending" /\ deposits[j].status = "NONE" ->
                  /\ deposits' = [deposits EXCEPT ![j] = [status |-> "PENDING", amount |-> a]]
                  /\ Goes(j, "read")
            [] OTHER -> /\ IF deposits[j].amount = a THEN Goes(j, "read") ELSE Leave(j)
                        /\ UNCHANGED deposits
    /\ UNCHANGED <<db, flowed, engines, history>>

(* read_deposits(status="PENDING"). *)
ReadPending(j) ==
    /\ At(j, "read")
    /\ job' = [job EXCEPT ![j].at = "save", ![j].ids = Pending]
    /\ UNCHANGED <<durable, engines, history>>

(* What trend gets of an amount. *)
Share(amount) == (60 * amount) \div 100
Distance(x, y) == IF x > y THEN x - y ELSE y - x

LoadedFlat(j) == \A e \in Engine : ~job[j].rows[e].open

(* The deposits are split at the target; then a drift of three points or    *)
(* more is brought back to it.  Both wait until the two engines are flat.   *)
Target(j) ==
    LET rows == job[j].rows
        deposit == IF LoadedFlat(j) THEN AmountOf(job[j].ids) ELSE 0
        trend == rows["trend"].cash + Share(deposit)
        total == rows["trend"].cash + rows["carry"].cash + deposit
        moved == LoadedFlat(j) /\ Distance(100 * trend, 60 * total) >= 3 * total
    IN  [deposit |-> deposit, moved |-> moved,
         trend |-> IF moved THEN Share(total) ELSE trend, total |-> total]

(* save_states_and_flows: both rows, the flows and the deposits in one       *)
(* transaction, refused when a deposit is not pending any more.             *)
Save(j) ==
    LET target == Target(j)
        cash == [trend |-> target.trend, carry |-> target.total - target.trend]
    IN  /\ At(j, "save")
        /\ \A e \in Engine : job[j].rows[e].cash > 0
        /\ IF (target.deposit > 0 \/ target.moved) /\ job[j].ids \subseteq Pending
           THEN /\ db' = [e \in Engine |->
                            Checkpoint(e, [job[j].rows[e] EXCEPT !.cash = cash[e]])]
                /\ flowed' = [e \in Engine |-> flowed[e] + cash[e] - job[j].rows[e].cash]
                /\ deposits' = [d \in DepositId |->
                                  IF d \in job[j].ids
                                  THEN [deposits[d] EXCEPT !.status = "APPLIED"]
                                  ELSE deposits[d]]
           ELSE UNCHANGED durable
        /\ Leave(j)
        /\ UNCHANGED <<engines, history>>

(* Mutant of Abort: no trap, the wrapper stops at the error.                *)
AbortWithoutTrap(j) ==
    /\ job[j].at \in Engine \cup {"register", "read", "save"}
    /\ job' = [job EXCEPT ![j] = IdleJob]
    /\ UNCHANGED <<durable, engines, history>>

(* An invalid state, an equity that is not positive, a store error.         *)
Abort(j) ==
    /\ job[j].at \in Engine \cup {"register", "read", "save"}
    /\ Leave(j)
    /\ UNCHANGED <<durable, engines, history>>

(* -- the host ----------------------------------------------------------- *)

(* The jobs are killed; the enabled units start at boot. *)
Reboot ==
    /\ unit' = [e \in Engine |-> "starting"]
    /\ mem' = [e \in Engine |-> EmptyRow]
    /\ job' = [j \in Jobs |-> IdleJob]
    /\ UNCHANGED <<durable, history>>

(* -- specification ------------------------------------------------------ *)

EngineStep(e) == Boot(e) \/ Tick(e) \/ Enter(e) \/ Exit(e) \/ EngineCrash(e)

Progress(j) ==
    \/ Probe(j) \/ StopEngines(j) \/ Load(j) \/ Register(j) \/ ReadPending(j) \/ Save(j)
    \/ RestartEngines(j)

Next ==
    \/ \E e \in Engine : EngineStep(e)
    \/ \E j \in Jobs : Start(j) \/ Progress(j) \/ Abort(j)
    \/ LatchTrend \/ Reboot

Spec == Init /\ [][Next]_vars

(* A shell script that is not killed goes on to its end, the daily timer    *)
(* fires for ever, and an error is not repeated for ever.                   *)
FairSpec ==
    /\ Spec
    /\ \A j \in Jobs :
          /\ WF_vars(Progress(j) \/ Abort(j))
          /\ SF_vars(Save(j))
    /\ WF_vars("pending" \in Jobs /\ Start("pending"))
====
