--------------------------- MODULE CapitalProofs ---------------------------
(***************************************************************************)
(* Proofs about what the engines own: CapitalFlow, for any initial capital,  *)
(* any deposits, any gains and any number of trades and failures of the      *)
(* host; then FundingReplay, for any number of slots, lots, fills, kills and *)
(* store errors.                                                            *)
(***************************************************************************)
EXTENDS CapitalFlowInv, FundingReplay, FiniteSetTheorems, WellFoundedInduction, TLAPS

(* The share of trend is part of the amount. *)
LEMMA ShareOfNat ==
  ASSUME NEW x \in Nat
  PROVE  Share(x) \in Nat /\ Share(x) <= x
  BY SMTT(30) DEF Share

(* What deposits are worth is a number. *)
LEMMA AmountTyped ==
  ASSUME TypeOK, NEW ids \in SUBSET DepositId
  PROVE  /\ AmountOf(ids) \in Nat
         /\ \A d \in DepositId : deposits[d].amount \in Nat
  <1>1. \A d \in DepositId : deposits[d].amount \in Nat
    BY CapitalAssumption DEF TypeOK, Deposit
  <1> QED BY <1>1 DEF AmountOf

(* The target of a run keeps the total of what it loaded and of the         *)
(* deposits it takes, and moves nothing under a position.                   *)
LEMMA TargetFacts ==
  ASSUME TypeOK, NEW j \in Jobs
  PROVE  /\ Target(j).deposit \in Nat /\ Target(j).trend \in Nat /\ Target(j).total \in Nat
         /\ Target(j).trend <= Target(j).total
         /\ Target(j).total = job[j].rows["trend"].cash + job[j].rows["carry"].cash
                              + Target(j).deposit
         /\ (Target(j).deposit > 0 \/ Target(j).moved) =>
               LoadedFlat(j) /\ Target(j).deposit = AmountOf(job[j].ids)
  <1> DEFINE rows == job[j].rows
             d == IF LoadedFlat(j) THEN AmountOf(job[j].ids) ELSE 0
             trend == rows["trend"].cash + Share(d)
             total == rows["trend"].cash + rows["carry"].cash + d
             moved == LoadedFlat(j) /\ Distance(100 * trend, 60 * total) >= 3 * total
  <1>1. job[j].ids \in SUBSET DepositId
        /\ rows["trend"].cash \in Nat /\ rows["carry"].cash \in Nat
    BY DEF TypeOK, Job, Row, Engine
  <1>2. d \in Nat
    BY <1>1, AmountTyped
  <1>3. Target(j) = [deposit |-> d, moved |-> moved,
                     trend |-> IF moved THEN Share(total) ELSE trend, total |-> total]
    BY DEF Target
  <1>4. d > 0 => LoadedFlat(j)
    OBVIOUS
  <1>5. moved => LoadedFlat(j)
    OBVIOUS
  <1>6. LoadedFlat(j) => d = AmountOf(job[j].ids)
    OBVIOUS
  <1> HIDE DEF rows, d, moved
  <1>7. total \in Nat /\ Share(d) \in Nat /\ Share(d) <= d
    BY <1>1, <1>2, ShareOfNat
  <1>8. trend \in Nat /\ trend <= total /\ Share(total) \in Nat /\ Share(total) <= total
    BY <1>1, <1>2, <1>7, ShareOfNat
  <1> QED BY <1>2, <1>3, <1>4, <1>5, <1>6, <1>7, <1>8 DEF rows

(* A checkpoint is a row with the values given, and keeps the latch.        *)
LEMMA CheckpointFacts ==
  ASSUME TypeOK, NEW e \in Engine, NEW new \in Row
  PROVE  /\ Checkpoint(e, new) \in Row
         /\ Checkpoint(e, new).cash = new.cash /\ Checkpoint(e, new).open = new.open
         /\ db[e].latch => Checkpoint(e, new).latch
         /\ new = db[e] => Checkpoint(e, new) = db[e]
  <1>1. db[e].latch \in BOOLEAN /\ db[e] \in Row /\ new.latch \in BOOLEAN
    BY DEF TypeOK, Row
  <1>2. Checkpoint(e, new) = [cash |-> new.cash, open |-> new.open,
                              latch |-> (new.latch \/ db[e].latch)]
    BY DEF Checkpoint, Row
  <1>3. new.latch \/ db[e].latch \in BOOLEAN
    BY <1>1
  <1>4. Checkpoint(e, new) \in Row
    BY <1>2, <1>3 DEF Row
  <1>5. new = db[e] => Checkpoint(e, new) = db[e]
    <2> SUFFICES ASSUME new = db[e] PROVE Checkpoint(e, new) = db[e]
      OBVIOUS
    <2>1. (new.latch \/ db[e].latch) = new.latch
      BY <1>1
    <2> QED BY <1>2, <2>1 DEF Row
  <1> QED BY <1>1, <1>2, <1>4, <1>5

(* The values the steps give to a job are jobs.                             *)
LEMMA JobTyped ==
  ASSUME NEW x \in Job
  PROVE  /\ IdleJob \in Job /\ [IdleJob EXCEPT !.at = "restart"] \in Job
         /\ \A step \in JobStep : [x EXCEPT !.at = step] \in Job
         /\ \A step \in JobStep, ids \in SUBSET DepositId :
               [x EXCEPT !.at = step, !.ids = ids] \in Job
         /\ \A step \in JobStep, e \in Engine, new \in Row :
               [x EXCEPT !.rows[e] = new, !.at = step] \in Job
  <1>1. EmptyRow \in Row
    BY DEF EmptyRow, Row
  <1>2. IdleJob \in Job /\ [IdleJob EXCEPT !.at = "restart"] \in Job
    BY <1>1 DEF IdleJob, Job, JobStep
  <1>3. ASSUME NEW step \in JobStep PROVE [x EXCEPT !.at = step] \in Job
    BY DEF Job
  <1>4. ASSUME NEW step \in JobStep, NEW ids \in SUBSET DepositId
        PROVE  [x EXCEPT !.at = step, !.ids = ids] \in Job
    BY DEF Job
  <1>5. ASSUME NEW step \in JobStep, NEW e \in Engine, NEW new \in Row
        PROVE  [x EXCEPT !.rows[e] = new, !.at = step] \in Job
    <2>1. [x.rows EXCEPT ![e] = new] \in [Engine -> Row]
      BY DEF Job
    <2>2. [x EXCEPT !.rows[e] = new, !.at = step] =
          [x EXCEPT !.rows = [x.rows EXCEPT ![e] = new], !.at = step]
      OBVIOUS
    <2> QED BY <2>1, <2>2 DEF Job
  <1> QED BY <1>2, <1>3, <1>4, <1>5

(* A step of a job that only moves it, or ends it, keeps the jobs typed.    *)
LEMMA MovedJob ==
  ASSUME TypeOK, NEW j \in Jobs,
         Leave(j) \/ \E step \in JobStep : Goes(j, step)
  PROVE  job' \in [Jobs -> Job]
  <1>1. job \in [Jobs -> Job] /\ job[j] \in Job
    BY DEF TypeOK
  <1>2. CASE Leave(j)
    <2>1. job' = [job EXCEPT ![j] = IF j = "manual" THEN [IdleJob EXCEPT !.at = "idle"]
                                    ELSE [IdleJob EXCEPT !.at = "restart"]]
      BY <1>2 DEF Leave
    <2>2. [IdleJob EXCEPT !.at = "idle"] \in Job /\ [IdleJob EXCEPT !.at = "restart"] \in Job
      BY <1>1, JobTyped DEF JobStep
    <2> QED BY <1>1, <2>1, <2>2
  <1>3. ASSUME NEW step \in JobStep, Goes(j, step) PROVE job' \in [Jobs -> Job]
    <2>1. job' = [job EXCEPT ![j] = [job[j] EXCEPT !.at = step]]
      BY <1>3 DEF Goes
    <2> QED BY <1>1, <2>1, JobTyped
  <1> QED BY <1>2, <1>3

(* The invariant holds initially. *)
LEMMA InitCapitalInv == Init => CapitalInv
  <1> SUFFICES ASSUME Init PROVE CapitalInv
    OBVIOUS
  <1>1. EmptyRow \in Row /\ IdleJob \in Job /\ NoDeposit \in Deposit
    BY CapitalAssumption DEF EmptyRow, Row, IdleJob, Job, JobStep, NoDeposit, Deposit
  <1>a. \A e \in Engine : InitialCash[e] \in Nat
    BY CapitalAssumption
  <1>b. \A e \in Engine : [EmptyRow EXCEPT !.cash = InitialCash[e]] \in Row
    BY <1>1, <1>a DEF Row
  <1>c. db \in [Engine -> Row]
    BY <1>b DEF Init
  <1>2. TypeOK
    BY <1>1, <1>c DEF Init, TypeOK, Unit
  <1>3. DepositsCountedOnce
    BY DEF Init, DepositsCountedOnce, AmountOf, InStatus, NoDeposit, Engine
  <1>4. Accounted /\ Undisturbed
    BY CapitalAssumption DEF Init, Accounted, Undisturbed, Holding, IdleJob, EmptyRow
  <1> QED BY <1>2, <1>3, <1>4 DEF CapitalInv

(* A save keeps the domains of the store. *)
LEMMA SaveTyped ==
  ASSUME TypeOK, NEW j \in Jobs, Save(j)
  PROVE  /\ db' \in [Engine -> Row] /\ deposits' \in [DepositId -> Deposit]
         /\ flowed' \in [Engine -> Int]
  <1> DEFINE t == Target(j)
             cash == [trend |-> t.trend, carry |-> t.total - t.trend]
             new(e) == [job[j].rows[e] EXCEPT !.cash = cash[e]]
  <1>1. CASE UNCHANGED durable
    BY <1>1 DEF TypeOK, durable
  <1>2. CASE /\ db' = [e \in Engine |-> Checkpoint(e, new(e))]
             /\ flowed' = [e \in Engine |-> flowed[e] + cash[e] - job[j].rows[e].cash]
             /\ deposits' = [d \in DepositId |->
                               IF d \in job[j].ids
                               THEN [deposits[d] EXCEPT !.status = "APPLIED"]
                               ELSE deposits[d]]
    <2>1. \A e \in Engine : cash[e] \in Nat
      BY TargetFacts DEF Engine
    <2>2. \A e \in Engine : job[j].rows[e] \in Row
      BY DEF TypeOK, Job
    <2>3. \A e \in Engine : new(e) \in Row
      BY <2>1, <2>2 DEF Row
    <2>4. db' \in [Engine -> Row]
      BY <1>2, <2>3, CheckpointFacts
    <2>5. flowed' \in [Engine -> Int]
      BY <1>2, <2>1, <2>2 DEF TypeOK, Row
    <2>6. deposits' \in [DepositId -> Deposit]
      BY <1>2 DEF TypeOK, Deposit
    <2> QED BY <2>4, <2>5, <2>6
  <1> QED BY <1>1, <1>2 DEF Save

(* Every step keeps the domains. *)
LEMMA StepTypeOK == TypeOK /\ [Next]_vars => TypeOK'
  <1> SUFFICES ASSUME TypeOK, [Next]_vars PROVE TypeOK'
    OBVIOUS
  <1> USE DEF durable, engines, history
  <1>a. EmptyRow \in Row
    BY DEF EmptyRow, Row
  <1>b. ASSUME NEW e \in Engine, NEW new \in Row, SavesRow(e, new)
        PROVE  db' \in [Engine -> Row] /\ mem' \in [Engine -> Row]
    BY <1>b, CheckpointFacts DEF SavesRow, TypeOK
  <1>1. ASSUME NEW e \in Engine, Boot(e) PROVE TypeOK'
    BY <1>1 DEF Boot, TypeOK, Unit
  <1>2. ASSUME NEW e \in Engine, Tick(e) PROVE TypeOK'
    <2>1. mem[e] \in Row
      BY DEF TypeOK
    <2> QED BY <1>2, <1>b, <2>1 DEF Tick, SavesRow, TypeOK
  <1>3. ASSUME NEW e \in Engine, Enter(e) PROVE TypeOK'
    <2>1. [mem[e] EXCEPT !.open = TRUE] \in Row
      BY DEF TypeOK, Row
    <2>2. SavesRow(e, [mem[e] EXCEPT !.open = TRUE])
          /\ trades' = trades + 1 /\ UNCHANGED earned
      BY <1>3 DEF Enter
    <2>3. db' \in [Engine -> Row] /\ mem' \in [Engine -> Row]
      BY <1>b, <2>1, <2>2
    <2> QED BY <2>2, <2>3 DEF SavesRow, TypeOK
  <1>4. ASSUME NEW e \in Engine, Exit(e) PROVE TypeOK'
    <2>1. PICK gain \in Gains :
             /\ mem[e].cash + gain > 0
             /\ SavesRow(e, [mem[e] EXCEPT !.open = FALSE, !.cash = mem[e].cash + gain])
             /\ earned' = [earned EXCEPT ![e] = earned[e] + gain]
      BY <1>4 DEF Exit
    <2>2. mem[e] \in Row /\ gain \in Int /\ mem[e].cash + gain \in Nat
      BY <2>1, CapitalAssumption DEF TypeOK, Row
    <2>3. [mem[e] EXCEPT !.open = FALSE, !.cash = mem[e].cash + gain] \in Row
      BY <2>2 DEF Row
    <2>4. earned' \in [Engine -> Int]
      BY <2>1, <2>2 DEF TypeOK
    <2> QED BY <1>4, <1>b, <2>1, <2>3, <2>4 DEF Exit, SavesRow, TypeOK
  <1>5. ASSUME NEW e \in Engine, EngineCrash(e) PROVE TypeOK'
    BY <1>5, <1>a DEF EngineCrash, TypeOK, Unit
  <1>6. ASSUME NEW j \in Jobs, Start(j) PROVE TypeOK'
    <2>1. \E step \in JobStep : Goes(j, step)
      BY <1>6, CapitalAssumption DEF Start, JobStep
    <2> QED BY <1>6, <2>1, MovedJob DEF Start, TypeOK
  <1>7. ASSUME NEW j \in Jobs, Probe(j) PROVE TypeOK'
    <2>1. \E step \in JobStep : Goes(j, step)
      BY <1>7 DEF Probe, JobStep
    <2> QED BY <1>7, <2>1, MovedJob DEF Probe, TypeOK
  <1>8. ASSUME NEW j \in Jobs, StopEngines(j) PROVE TypeOK'
    <2>1. Goes(j, "trend") /\ "trend" \in JobStep
      BY <1>8 DEF StopEngines, JobStep
    <2>2. db' \in [Engine -> Row]
      BY <1>8, CheckpointFacts DEF StopEngines, TypeOK
    <2> QED BY <1>8, <1>a, <2>1, <2>2, MovedJob DEF StopEngines, TypeOK, Unit
  <1>9. ASSUME NEW j \in Jobs, Load(j) PROVE TypeOK'
    <2>1. job[j].at \in Engine /\ job[j] \in Job /\ db[job[j].at] \in Row
      BY <1>9 DEF Load, TypeOK
    <2>2. PICK step \in JobStep :
             job' = [job EXCEPT ![j] = [job[j] EXCEPT !.rows[job[j].at] = db[job[j].at],
                                                      !.at = step]]
      BY <1>9 DEF Load, JobStep
    <2>3. job' \in [Jobs -> Job]
      BY <2>1, <2>2, JobTyped DEF TypeOK
    <2> QED BY <1>9, <2>3 DEF Load, TypeOK
  <1>10. ASSUME NEW j \in Jobs, Register(j) PROVE TypeOK'
    <2>1. Leave(j) \/ \E step \in JobStep : Goes(j, step)
      BY <1>10 DEF Register, JobStep
    <2>2. deposits' \in [DepositId -> Deposit]
      BY <1>10 DEF Register, TypeOK, Deposit
    <2> QED BY <1>10, <2>1, <2>2, MovedJob DEF Register, TypeOK
  <1>11. ASSUME NEW j \in Jobs, ReadPending(j) PROVE TypeOK'
    <2>1. job[j] \in Job /\ Pending \in SUBSET DepositId /\ "save" \in JobStep
      BY DEF TypeOK, Pending, InStatus, JobStep
    <2>2. job' = [job EXCEPT ![j] = [job[j] EXCEPT !.at = "save", !.ids = Pending]]
      BY <1>11 DEF ReadPending
    <2>3. job' \in [Jobs -> Job]
      BY <2>1, <2>2, JobTyped DEF TypeOK
    <2> QED BY <1>11, <2>3 DEF ReadPending, TypeOK
  <1>12. ASSUME NEW j \in Jobs, Save(j) PROVE TypeOK'
    <2>1. Leave(j) /\ UNCHANGED <<engines, history>>
      BY <1>12 DEF Save
    <2> QED BY <1>12, <2>1, MovedJob, SaveTyped DEF TypeOK
  <1>13. ASSUME NEW j \in Jobs, RestartEngines(j) PROVE TypeOK'
    <2>1. Goes(j, "idle") /\ "idle" \in JobStep
      BY <1>13 DEF RestartEngines, JobStep
    <2> QED BY <1>13, <2>1, MovedJob DEF RestartEngines, TypeOK, Unit
  <1>14. ASSUME NEW j \in Jobs, Abort(j) PROVE TypeOK'
    BY <1>14, MovedJob DEF Abort, TypeOK
  <1>15. CASE LatchTrend
    <2>1. [mem["trend"] EXCEPT !.latch = TRUE] \in Row
      BY DEF TypeOK, Row, Engine
    <2> QED BY <1>15, <1>a, <2>1 DEF LatchTrend, TypeOK, Unit
  <1>16. CASE Reboot
    <2>1. IdleJob \in Job
      BY <1>a DEF IdleJob, Job, JobStep
    <2> QED BY <1>16, <1>a, <2>1 DEF Reboot, TypeOK, Unit
  <1>17. CASE UNCHANGED vars
    BY <1>17 DEF vars, TypeOK
  <1> QED BY <1>1, <1>2, <1>3, <1>4, <1>5, <1>6, <1>7, <1>8, <1>9, <1>10, <1>11, <1>12,
             <1>13, <1>14, <1>15, <1>16, <1>17 DEF Next, EngineStep, Progress

(* The transaction of a save adds to the flows what it marks applied.       *)
LEMMA SaveCounts ==
  ASSUME TypeOK, TypeOK', DepositsCountedOnce, NEW j \in Jobs, Save(j)
  PROVE  DepositsCountedOnce'
  <1> DEFINE t == Target(j)
             cash == [trend |-> t.trend, carry |-> t.total - t.trend]
             ids == job[j].ids
             of(d) == IF d \in ids THEN deposits[d].amount ELSE 0
             old(d) == IF d \in InStatus("APPLIED") THEN deposits[d].amount ELSE 0
             new(d) == IF d \in InStatus("APPLIED")' THEN deposits'[d].amount ELSE 0
  <1>1. CASE UNCHANGED durable
    BY <1>1 DEF durable, DepositsCountedOnce, AmountOf, InStatus
  <1>2. CASE /\ t.deposit > 0 \/ t.moved
             /\ ids \subseteq Pending
             /\ flowed' = [e \in Engine |-> flowed[e] + cash[e] - job[j].rows[e].cash]
             /\ deposits' = [d \in DepositId |->
                               IF d \in ids
                               THEN [deposits[d] EXCEPT !.status = "APPLIED"]
                               ELSE deposits[d]]
    <2>1. t.deposit = of("monthly") + of("manual")
      BY <1>2, TargetFacts DEF AmountOf
    <2>2. flowed'["trend"] + flowed'["carry"] = flowed["trend"] + flowed["carry"] + t.deposit
      <3>1. /\ flowed'["trend"] = flowed["trend"] + t.trend - job[j].rows["trend"].cash
            /\ flowed'["carry"] = flowed["carry"] + (t.total - t.trend)
                                   - job[j].rows["carry"].cash
        BY <1>2 DEF Engine
      <3>2. /\ flowed["trend"] \in Int /\ flowed["carry"] \in Int
            /\ job[j].rows["trend"].cash \in Int /\ job[j].rows["carry"].cash \in Int
        BY DEF TypeOK, Job, Row, Engine
      <3>3. /\ t.trend \in Int /\ t.total \in Int /\ t.deposit \in Int
            /\ t.total = job[j].rows["trend"].cash + job[j].rows["carry"].cash + t.deposit
        BY TargetFacts
      <3> HIDE DEF t
      <3> QED BY <3>1, <3>2, <3>3
    <2>3. ASSUME NEW d \in {"monthly", "manual"}
          PROVE  new(d) = old(d) + of(d) /\ old(d) \in Int /\ of(d) \in Int
      <3>1. CASE d \in ids
        <4>1. d \in DepositId /\ deposits[d].status = "PENDING" /\ deposits[d] \in Deposit
          BY <1>2, <3>1 DEF Pending, InStatus, TypeOK
        <4>2. deposits'[d] = [deposits[d] EXCEPT !.status = "APPLIED"]
          BY <1>2, <3>1, <4>1
        <4>3. deposits'[d].status = "APPLIED" /\ deposits'[d].amount = deposits[d].amount
          BY <4>1, <4>2 DEF Deposit
        <4>4. deposits[d].amount \in Int
          BY <4>1, AmountTyped
        <4> QED BY <3>1, <4>1, <4>3, <4>4 DEF InStatus
      <3>2. CASE d \in DepositId /\ d \notin ids
        <4>1. deposits'[d] = deposits[d] /\ deposits[d].amount \in Int
          BY <1>2, <3>2, CapitalAssumption DEF TypeOK, Deposit
        <4> QED BY <3>2, <4>1 DEF InStatus
      <3>3. CASE d \notin DepositId
        BY <1>2, <3>3 DEF InStatus, Pending
      <3> QED BY <3>1, <3>2, <3>3
    <2> HIDE DEF of, old, new, t
    <2>4. flowed["trend"] + flowed["carry"] = old("monthly") + old("manual")
      BY DEF DepositsCountedOnce, AmountOf, old
    <2>5. flowed'["trend"] + flowed'["carry"] = new("monthly") + new("manual")
      BY <2>1, <2>2, <2>3, <2>4
    <2> QED BY <2>5 DEF DepositsCountedOnce, AmountOf, new
  <1> QED BY <1>1, <1>2 DEF Save

(* Registering a deposit applies none. *)
LEMMA RegisterCounts ==
  ASSUME TypeOK, DepositsCountedOnce, NEW j \in Jobs, Register(j)
  PROVE  DepositsCountedOnce'
  <1>1. UNCHANGED flowed
    BY DEF Register
  <1>2. CASE UNCHANGED deposits
    BY <1>1, <1>2 DEF DepositsCountedOnce, AmountOf, InStatus
  <1>3. CASE \E a \in Amounts :
               /\ j # "pending" /\ deposits[j].status = "NONE"
               /\ deposits' = [deposits EXCEPT ![j] = [status |-> "PENDING", amount |-> a]]
    <2>1. j \in DepositId /\ deposits[j].status # "APPLIED" /\ deposits'[j].status # "APPLIED"
      BY <1>3 DEF DepositId, TypeOK
    <2>2. \A d \in DepositId \ {j} : deposits'[d] = deposits[d]
      BY <1>3 DEF TypeOK
    <2>3. InStatus("APPLIED")' = InStatus("APPLIED") /\ j \notin InStatus("APPLIED")
      BY <2>1, <2>2 DEF InStatus
    <2>4. \A d \in InStatus("APPLIED") : deposits'[d].amount = deposits[d].amount
      BY <2>2, <2>3 DEF InStatus
    <2> QED BY <1>1, <2>3, <2>4 DEF DepositsCountedOnce, AmountOf
  <1> QED BY <1>2, <1>3 DEF Register

(* The engines write what they hold in memory: with Undisturbed, a          *)
(* checkpoint changes what the engine itself changed and nothing else.      *)
LEMMA EngineUndisturbed ==
  ASSUME TypeOK, Accounted, Undisturbed, NEW e \in Engine, EngineStep(e)
  PROVE  Accounted' /\ Undisturbed'
  <1> USE DEF durable, engines, history
  <1>1. CASE Boot(e)
    BY <1>1 DEF Boot, Accounted, Undisturbed, TypeOK
  <1>2. CASE EngineCrash(e)
    BY <1>2 DEF EngineCrash, Accounted, Undisturbed, TypeOK
  <1>3. CASE Tick(e)
    <2>1. mem[e] = db[e] /\ mem[e] \in Row
      BY <1>3 DEF Tick, Undisturbed, TypeOK
    <2>2. db' = db /\ mem' = mem
      BY <1>3, <2>1, CheckpointFacts DEF Tick, SavesRow, TypeOK
    <2> QED BY <1>3, <2>2 DEF Tick, SavesRow, Accounted, Undisturbed
  <1>4. ASSUME NEW new \in Row, SavesRow(e, new), unit[e] = "up",
               new.cash = mem[e].cash + (earned'[e] - earned[e]),
               new.latch = mem[e].latch, earned'[e] \in Int,
               \A x \in Engine \ {e} : earned'[x] = earned[x]
        PROVE  Accounted' /\ Undisturbed'
    <2>1. mem[e] = db[e] /\ \A j \in Jobs : job[j].at \notin Holding
      BY <1>4 DEF Undisturbed
    <2>2. Checkpoint(e, new) = new
      <3>1. Checkpoint(e, new) = [new EXCEPT !.latch = (new.latch \/ new.latch)]
        BY <1>4, <2>1 DEF Checkpoint
      <3>2. new.latch \in BOOLEAN /\ new = [cash |-> new.cash, open |-> new.open, latch |-> new.latch]
        BY DEF Row
      <3>3. (new.latch \/ new.latch) = new.latch
        BY <3>2
      <3> QED BY <3>1, <3>2, <3>3
    <2>3. db' = [db EXCEPT ![e] = new] /\ mem' = [mem EXCEPT ![e] = new]
      BY <1>4, <2>2 DEF SavesRow
    <2>4. Accounted'
      <3>1. /\ db[e].cash = InitialCash[e] + earned[e] + flowed[e]
            /\ InitialCash[e] \in Int /\ earned[e] \in Int /\ flowed[e] \in Int
        BY CapitalAssumption DEF Accounted, TypeOK
      <3>2. db'[e].cash = InitialCash[e] + earned'[e] + flowed[e]
        BY <1>4, <2>1, <2>3, <3>1 DEF TypeOK
      <3>3. \A x \in Engine \ {e} : db'[x] = db[x]
        BY <2>3 DEF TypeOK
      <3> QED BY <1>4, <3>2, <3>3 DEF Accounted, SavesRow
    <2>5. Undisturbed'
      BY <1>4, <2>1, <2>3 DEF SavesRow, Undisturbed, Holding, TypeOK
    <2> QED BY <2>4, <2>5
  <1>5. CASE Enter(e)
    <2>a. mem[e] \in Row /\ earned[e] \in Int
      BY DEF TypeOK
    <2>b. [mem[e] EXCEPT !.open = TRUE] \in Row
      BY <2>a DEF Row
    <2>c. mem[e].cash \in Nat
      BY <2>a DEF Row
    <2>1. [mem[e] EXCEPT !.open = TRUE] \in Row /\ mem[e].cash \in Int /\ earned[e] \in Int
      BY <2>a, <2>b, <2>c
    <2>2. /\ [mem[e] EXCEPT !.open = TRUE].cash = mem[e].cash + (earned[e] - earned[e])
          /\ [mem[e] EXCEPT !.open = TRUE].latch = mem[e].latch
      BY <2>1 DEF TypeOK, Row
    <2> QED BY <1>4, <1>5, <2>1, <2>2 DEF Enter
  <1>6. CASE Exit(e)
    <2>1. PICK gain \in Gains :
             /\ mem[e].cash + gain > 0
             /\ SavesRow(e, [mem[e] EXCEPT !.open = FALSE, !.cash = mem[e].cash + gain])
             /\ earned' = [earned EXCEPT ![e] = earned[e] + gain]
      BY <1>6 DEF Exit
    <2> DEFINE new == [mem[e] EXCEPT !.open = FALSE, !.cash = mem[e].cash + gain]
    <2>2. mem[e] \in Row /\ gain \in Int /\ mem[e].cash \in Nat /\ earned[e] \in Int
      BY CapitalAssumption DEF TypeOK, Row
    <2>a. mem[e].cash + gain \in Nat
      BY <2>1, <2>2
    <2>3. new \in Row /\ new.cash = mem[e].cash + gain /\ new.latch = mem[e].latch
      BY <2>2, <2>a DEF Row
    <2>4. /\ earned'[e] = earned[e] + gain
          /\ \A x \in Engine \ {e} : earned'[x] = earned[x]
      BY <2>1 DEF TypeOK
    <2>5. new.cash = mem[e].cash + (earned'[e] - earned[e]) /\ earned'[e] \in Int
      BY <2>2, <2>3, <2>4
    <2>6. SavesRow(e, new) /\ unit[e] = "up"
      BY <1>6, <2>1 DEF Exit
    <2> HIDE DEF new
    <2> QED BY <1>4, <2>3, <2>4, <2>5, <2>6
  <1> QED BY <1>1, <1>2, <1>3, <1>5, <1>6 DEF EngineStep

(* A step of a job moves that job only, and leaves what it loaded. *)
LEMMA GoesTo ==
  ASSUME TypeOK, NEW j \in Jobs, NEW step, Goes(j, step)
  PROVE  /\ job'[j].at = step /\ job'[j].rows = job[j].rows
         /\ \A k \in Jobs \ {j} : job'[k] = job[k]
  <1>1. job[j] \in Job /\ job' = [job EXCEPT ![j] = [job[j] EXCEPT !.at = step]]
    BY DEF TypeOK, Goes
  <1> QED BY <1>1 DEF TypeOK, Job

(* A job that leaves goes to its restart, a direct call ends.               *)
LEMMA Leaves ==
  ASSUME TypeOK, NEW j \in Jobs, Leave(j), j # "manual"
  PROVE  job'[j].at = "restart" /\ \A k \in Jobs \ {j} : job'[k] = job[k]
  <1>1. job' = [job EXCEPT ![j] = [IdleJob EXCEPT !.at = "restart"]]
    BY DEF Leave
  <1>2. [IdleJob EXCEPT !.at = "restart"].at = "restart"
    BY DEF IdleJob
  <1> QED BY <1>1, <1>2 DEF TypeOK

(* While a job that holds the engines goes on, nothing else moves.          *)
LEMMA HoldingOn ==
  ASSUME TypeOK, Accounted, Undisturbed, NEW j \in Jobs, job[j].at \in Holding,
         UNCHANGED <<unit, mem, db, flowed, earned>>,
         \A k \in Jobs \ {j} : job'[k] = job[k],
         job'[j].at \in Holding,
         job'[j].at \in {"carry", "register", "read", "save"} =>
            job'[j].rows["trend"] = db["trend"],
         job'[j].at \in {"register", "read", "save"} => job'[j].rows["carry"] = db["carry"]
  PROVE  Accounted' /\ Undisturbed'
  <1>1. Accounted'
    BY DEF Accounted
  <1>2. j # "manual" /\ \A k \in Jobs \ {j} : job[k].at = "idle" /\ job'[k].at = "idle"
    BY DEF Undisturbed, Holding
  <1>3. \A e \in Engine : unit[e] = "stopped"
    BY DEF Undisturbed
  <1> QED BY <1>1, <1>2, <1>3 DEF Undisturbed, Holding

(* The steps of a job, one at a time, through its wrapper. *)
LEMMA JobUndisturbed ==
  ASSUME TypeOK, Accounted, Undisturbed, NEW j \in Jobs,
         Progress(j) \/ Abort(j)
  PROVE  Accounted' /\ Undisturbed'
  <1> USE DEF durable, engines, history
  <1>1. CASE Probe(j)
    <2>1. job'[j].at \in {"idle", "stop"} /\ \A k \in Jobs \ {j} : job'[k] = job[k]
      BY <1>1, GoesTo DEF Probe
    <2>2. j # "manual" /\ \A k \in Jobs \ {j} : job[k].at = "idle"
      BY <1>1 DEF Probe, At, Undisturbed
    <2> QED BY <1>1, <2>1, <2>2 DEF Probe, Accounted, Undisturbed, Holding
  <1>2. CASE StopEngines(j)
    <2>1. job'[j].at = "trend" /\ \A k \in Jobs \ {j} : job'[k] = job[k]
      BY <1>2, GoesTo DEF StopEngines
    <2>2. j # "manual" /\ \A k \in Jobs \ {j} : job[k].at = "idle"
      BY <1>2 DEF StopEngines, At, Undisturbed
    <2>3. db' = db
      <3>1. PICK clean \in SUBSET {e \in Engine : unit[e] = "up"} :
               db' = [e \in Engine |-> IF e \in clean THEN Checkpoint(e, mem[e]) ELSE db[e]]
        BY <1>2 DEF StopEngines
      <3>2. \A e \in clean : mem[e] = db[e] /\ mem[e] \in Row /\ Checkpoint(e, mem[e]) = db[e]
        BY <3>1, CheckpointFacts DEF Undisturbed, TypeOK
      <3> QED BY <3>1, <3>2 DEF TypeOK
    <2>4. \A e \in Engine : unit'[e] = "stopped"
      BY <1>2 DEF StopEngines
    <2> QED BY <1>2, <2>1, <2>2, <2>3, <2>4 DEF StopEngines, Accounted, Undisturbed, Holding
  <1>3. CASE Load(j)
    <2>1. PICK e \in Engine :
             /\ job[j].at = e
             /\ job' = [job EXCEPT ![j] = [job[j] EXCEPT !.rows[e] = db[e],
                          !.at = IF e = "trend" THEN "carry" ELSE "register"]]
      BY <1>3 DEF Load
    <2>2. job[j] \in Job
      BY DEF TypeOK
    <2>3. /\ job'[j].at = IF e = "trend" THEN "carry" ELSE "register"
          /\ job'[j].rows = [job[j].rows EXCEPT ![e] = db[e]]
          /\ \A k \in Jobs \ {j} : job'[k] = job[k]
      BY <2>1, <2>2 DEF TypeOK, Job
    <2>4. e = "trend" \/ e = "carry"
      BY DEF Engine
    <2>5. job[j].rows \in [Engine -> Row] /\ "trend" \in Engine /\ "carry" \in Engine
      BY <2>2 DEF Job, Engine
    <2>a. UNCHANGED <<unit, mem, db, flowed, earned>> /\ job[j].at \in Holding
      BY <1>3, <2>1, <2>4 DEF Load, Holding
    <2>6. CASE e = "trend"
      <3>1. job'[j].at = "carry" /\ job'[j].rows["trend"] = db["trend"]
        BY <2>3, <2>5, <2>6
      <3> QED BY <2>a, <2>3, <3>1, HoldingOn DEF Holding
    <2>7. CASE e = "carry"
      <3>1. job[j].rows["trend"] = db["trend"]
        BY <2>1, <2>7 DEF Undisturbed
      <3>2. /\ job'[j].at = "register" /\ job'[j].rows["trend"] = db["trend"]
            /\ job'[j].rows["carry"] = db["carry"]
        BY <2>3, <2>5, <2>7, <3>1
      <3> QED BY <2>a, <2>3, <3>2, HoldingOn DEF Holding
    <2> QED BY <2>4, <2>6, <2>7
  <1>4. CASE Register(j)
    <2>1. /\ job[j].at = "register" /\ UNCHANGED <<unit, mem, db, flowed, earned>>
          /\ Goes(j, "read") \/ Leave(j)
      BY <1>4 DEF Register, At
    <2>2. j # "manual"
      BY <2>1 DEF Undisturbed
    <2>3. job[j].rows["trend"] = db["trend"] /\ job[j].rows["carry"] = db["carry"]
      BY <2>1 DEF Undisturbed
    <2>4. CASE Goes(j, "read")
      BY <2>1, <2>3, <2>4, GoesTo, HoldingOn DEF Holding
    <2>5. CASE Leave(j)
      BY <2>1, <2>2, <2>5, Leaves, HoldingOn DEF Holding
    <2> QED BY <2>1, <2>4, <2>5
  <1>5. CASE ReadPending(j)
    <2>1. job[j].at = "read" /\ job[j] \in Job
      BY <1>5 DEF ReadPending, At, TypeOK
    <2>2. /\ job'[j].at = "save" /\ job'[j].rows = job[j].rows
          /\ \A k \in Jobs \ {j} : job'[k] = job[k]
      BY <1>5, <2>1 DEF ReadPending, TypeOK, Job
    <2>3. job[j].rows["trend"] = db["trend"] /\ job[j].rows["carry"] = db["carry"]
      BY <2>1 DEF Undisturbed
    <2> QED BY <1>5, <2>1, <2>2, <2>3, HoldingOn DEF ReadPending, Holding
  <1>6. CASE Abort(j)
    <2>1. job[j].at \in Holding
      BY <1>6 DEF Abort, Engine, Holding
    <2>2. j # "manual"
      BY <2>1 DEF Undisturbed, Holding
    <2> QED BY <1>6, <2>1, <2>2, Leaves, HoldingOn DEF Abort, Holding
  <1>7. CASE RestartEngines(j)
    <2>1. job'[j].at = "idle" /\ \A k \in Jobs \ {j} : job'[k] = job[k]
      BY <1>7, GoesTo DEF RestartEngines
    <2>2. \A k \in Jobs \ {j} : job[k].at = "idle"
      BY <1>7 DEF RestartEngines, At, Undisturbed
    <2>3. \A e \in Engine : unit'[e] # "up"
      BY <1>7 DEF RestartEngines, At, Undisturbed, Holding
    <2> QED BY <1>7, <2>1, <2>2, <2>3 DEF RestartEngines, Accounted, Undisturbed, Holding
  <1>8. CASE Save(j)
    <2>1. job[j].at = "save" /\ Leave(j) /\ UNCHANGED <<unit, mem, earned>>
      BY <1>8 DEF Save, At
    <2>2. j # "manual" /\ \A k \in Jobs \ {j} : job[k].at = "idle"
      BY <2>1 DEF Undisturbed
    <2>3. job'[j].at = "restart" /\ \A k \in Jobs \ {j} : job'[k] = job[k]
      BY <2>1, <2>2, Leaves
    <2>4. \A e \in Engine : unit[e] = "stopped" /\ job[j].rows[e] = db[e]
      BY <2>1 DEF Undisturbed, Holding, Engine
    <2>5. Undisturbed'
      BY <2>1, <2>2, <2>3, <2>4 DEF Undisturbed, Holding
    <2>6. Accounted'
      <3>1. CASE UNCHANGED durable
        BY <2>1, <3>1 DEF Accounted
      <3> DEFINE cash == [trend |-> Target(j).trend, carry |-> Target(j).total - Target(j).trend]
                 new(e) == [job[j].rows[e] EXCEPT !.cash = cash[e]]
      <3>2. CASE /\ db' = [e \in Engine |-> Checkpoint(e, new(e))]
                 /\ flowed' = [e \in Engine |-> flowed[e] + cash[e] - job[j].rows[e].cash]
        <4>1. \A e \in Engine : cash[e] \in Nat
          BY TargetFacts DEF Engine
        <4>2. \A e \in Engine : db[e] \in Row /\ new(e) \in Row /\ new(e).cash = cash[e]
          BY <2>4, <4>1 DEF TypeOK, Row
        <4> HIDE DEF cash, new
        <4>3. ASSUME NEW e \in Engine
              PROVE  db'[e].cash = InitialCash[e] + earned'[e] + flowed'[e]
          <5>1. db'[e].cash = cash[e]
            BY <3>2, <4>2, CheckpointFacts
          <5>2. flowed'[e] = flowed[e] + cash[e] - db[e].cash
            BY <2>4, <3>2
          <5>3. db[e].cash = InitialCash[e] + earned[e] + flowed[e]
            BY DEF Accounted
          <5>4. /\ InitialCash[e] \in Int /\ earned[e] \in Int /\ flowed[e] \in Int
                /\ cash[e] \in Int
            BY <4>1, CapitalAssumption DEF TypeOK
          <5> QED BY <2>1, <5>1, <5>2, <5>3, <5>4
        <4> QED BY <4>3 DEF Accounted
      <3> QED BY <1>8, <3>1, <3>2 DEF Save
    <2> QED BY <2>5, <2>6
  <1> QED BY <1>1, <1>2, <1>3, <1>4, <1>5, <1>6, <1>7, <1>8 DEF Progress

(* Only a registration and a save move the deposits or the flows, and a     *)
(* registration leaves the flows alone.                                     *)
LEMMA CapitalMoves ==
  ASSUME [Next]_vars
  PROVE  \/ \E j \in Jobs : Save(j)
         \/ \E j \in Jobs : Register(j) /\ UNCHANGED flowed
         \/ UNCHANGED <<deposits, flowed>>
  <1> USE DEF durable, engines, history
  <1>1. ASSUME NEW e \in Engine, EngineStep(e) PROVE UNCHANGED <<deposits, flowed>>
    BY <1>1 DEF EngineStep, Boot, Tick, Enter, Exit, EngineCrash, SavesRow
  <1>2. ASSUME NEW j \in Jobs, Start(j) \/ Abort(j) PROVE UNCHANGED <<deposits, flowed>>
    BY <1>2 DEF Start, Abort
  <1>3. ASSUME NEW j \in Jobs, Progress(j)
        PROVE  Save(j) \/ (Register(j) /\ UNCHANGED flowed) \/ UNCHANGED <<deposits, flowed>>
    <2>1. CASE Register(j)
      BY <2>1 DEF Register
    <2>2. CASE Probe(j) \/ StopEngines(j) \/ Load(j) \/ ReadPending(j) \/ RestartEngines(j)
      BY <2>2 DEF Probe, StopEngines, Load, ReadPending, RestartEngines
    <2> QED BY <1>3, <2>1, <2>2 DEF Progress
  <1>4. CASE LatchTrend \/ Reboot
    BY <1>4 DEF LatchTrend, Reboot
  <1>5. CASE UNCHANGED vars
    BY <1>5 DEF vars
  <1> QED BY <1>1, <1>2, <1>3, <1>4, <1>5 DEF Next

(* Once two jobs have overlapped, or one ran outside its wrapper, no step    *)
(* forgets it.                                                              *)
LEMMA ExclusiveStays ==
  ASSUME TypeOK, [Next]_vars, exclusive'
  PROVE  exclusive
  <1> USE DEF TypeOK, durable, engines, history
  <1>1. ASSUME NEW e \in Engine, EngineStep(e) PROVE exclusive
    BY <1>1 DEF EngineStep, Boot, Tick, Enter, Exit, EngineCrash, SavesRow
  <1>2. ASSUME NEW j \in Jobs, Start(j) PROVE exclusive
    BY <1>2 DEF Start
  <1>3. ASSUME NEW j \in Jobs, Progress(j) \/ Abort(j) PROVE exclusive
    BY <1>3 DEF Progress, Probe, StopEngines, Load, Register, ReadPending, Save, RestartEngines, Abort
  <1>4. CASE LatchTrend \/ Reboot
    BY <1>4 DEF LatchTrend, Reboot
  <1>5. CASE UNCHANGED vars
    BY <1>5 DEF vars
  <1> QED BY <1>1, <1>2, <1>3, <1>4, <1>5 DEF Next

(* Every step keeps the invariant. *)
LEMMA StepCapitalInv == CapitalInv /\ [Next]_vars => CapitalInv'
  <1> SUFFICES ASSUME CapitalInv, [Next]_vars PROVE CapitalInv'
    OBVIOUS
  <1>1. TypeOK /\ TypeOK' /\ DepositsCountedOnce
    <2>1. TypeOK /\ DepositsCountedOnce
      BY DEF CapitalInv
    <2> QED BY <2>1, StepTypeOK
  <1>a. exclusive => Accounted /\ Undisturbed
    BY DEF CapitalInv
  <1> USE DEF durable, engines, history
  <1>2. DepositsCountedOnce'
    <2>1. ASSUME NEW j \in Jobs, Save(j) PROVE DepositsCountedOnce'
      BY <1>1, <2>1, SaveCounts
    <2>2. ASSUME NEW j \in Jobs, Register(j) PROVE DepositsCountedOnce'
      BY <1>1, <2>2, RegisterCounts
    <2>3. CASE UNCHANGED <<deposits, flowed>>
      BY <1>1, <2>3 DEF DepositsCountedOnce, AmountOf, InStatus
    <2> QED BY <2>1, <2>2, <2>3, CapitalMoves
  <1>3. ASSUME exclusive' PROVE Accounted' /\ Undisturbed'
    <2>1. exclusive /\ Accounted /\ Undisturbed
      <3>1. exclusive
        BY <1>1, <1>3, ExclusiveStays
      <3> QED BY <3>1, <1>a
    <2>2. ASSUME NEW e \in Engine, EngineStep(e) PROVE Accounted' /\ Undisturbed'
      BY <1>1, <2>1, <2>2, EngineUndisturbed
    <2>3. ASSUME NEW j \in Jobs, Progress(j) \/ Abort(j) PROVE Accounted' /\ Undisturbed'
      BY <1>1, <2>1, <2>3, JobUndisturbed
    <2>4. ASSUME NEW j \in Jobs, Start(j) PROVE Accounted' /\ Undisturbed'
      <3>1. j # "manual" /\ \A k \in Jobs : job[k].at = "idle"
        BY <1>3, <2>4 DEF Start, At
      <3>2. job'[j].at \in {"stop", "probe"} /\ \A k \in Jobs \ {j} : job'[k] = job[k]
        BY <1>1, <2>4, <3>1, GoesTo, CapitalAssumption DEF Start
      <3> QED BY <2>1, <2>4, <3>1, <3>2 DEF Start, Accounted, Undisturbed, Holding
    <2>5. CASE LatchTrend
      <3>1. unit["trend"] = "up" /\ "trend" \in Engine /\ mem["trend"] = db["trend"]
        BY <2>1, <2>5 DEF LatchTrend, Undisturbed, Engine
      <3>2. \A j \in Jobs : job[j].at \notin Holding
        BY <2>1, <3>1 DEF Undisturbed
      <3>3. db' = [db EXCEPT !["trend"] = [db["trend"] EXCEPT !.latch = TRUE]]
        BY <2>5, <3>1 DEF LatchTrend
      <3>4. \A e \in Engine : db'[e].cash = db[e].cash
        BY <1>1, <3>1, <3>3 DEF TypeOK, Row
      <3>5. \A e \in Engine : unit'[e] = "up" => mem'[e] = db'[e]
        BY <1>1, <2>1, <2>5, <3>1, <3>3 DEF LatchTrend, Undisturbed, TypeOK
      <3> QED BY <2>1, <2>5, <3>2, <3>4, <3>5 DEF LatchTrend, Accounted, Undisturbed, Holding
    <2>6. CASE Reboot
      BY <2>1, <2>6 DEF Reboot, IdleJob, Accounted, Undisturbed, Holding
    <2>7. CASE UNCHANGED vars
      BY <2>1, <2>7 DEF vars, Accounted, Undisturbed
    <2> QED BY <2>2, <2>3, <2>4, <2>5, <2>6, <2>7 DEF Next
  <1> QED BY <1>1, <1>2, <1>3 DEF CapitalInv

(* The invariant holds in every reachable state.                            *)
THEOREM CapitalInvariant == Spec => []CapitalInv
  <1> QED BY InitCapitalInv, StepCapitalInv, PTL DEF Spec

(* Store, units and jobs keep their domains; no equity becomes negative.    *)
THEOREM CapitalTypeCorrect == Spec => []TypeOK
  <1>1. CapitalInv => TypeOK
    BY DEF CapitalInv
  <1> QED BY <1>1, CapitalInvariant, PTL

(* As long as one job at a time goes through its wrapper, what an engine    *)
(* holds is its initial capital, what it won and the flows of the journal.  *)
THEOREM CapitalNeverLost == Spec => []CapitalAccounted
  <1>1. CapitalInv => CapitalAccounted
    BY DEF CapitalInv, CapitalAccounted
  <1> QED BY <1>1, CapitalInvariant, PTL

(* The flows hold each applied deposit once, whatever jobs overlap.         *)
THEOREM DepositsOnce == Spec => []DepositsCountedOnce
  <1>1. CapitalInv => DepositsCountedOnce
    BY DEF CapitalInv
  <1> QED BY <1>1, CapitalInvariant, PTL

(* Capital moves only while the units are stopped and the engines flat.     *)
THEOREM CapitalAtRest == Spec => FlowsOnlyAtRest
  <1> DEFINE AtRest == exclusive /\ flowed' # flowed =>
                         \A e \in Engine : unit[e] = "stopped" /\ ~db[e].open
  <1>1. CapitalInv /\ [Next]_vars => [AtRest]_vars
    <2> SUFFICES ASSUME CapitalInv, Next, exclusive, flowed' # flowed
                 PROVE  \A e \in Engine : unit[e] = "stopped" /\ ~db[e].open
      BY DEF vars, durable
    <2>1. TypeOK /\ Undisturbed
      BY DEF CapitalInv
    <2>2. PICK j \in Jobs : Save(j)
      BY CapitalMoves
    <2>3. job[j].at = "save" /\ (Target(j).deposit > 0 \/ Target(j).moved)
      BY <2>2 DEF Save, At, durable
    <2>4. LoadedFlat(j)
      BY <2>1, <2>3, TargetFacts
    <2>5. \A e \in Engine : unit[e] = "stopped" /\ job[j].rows[e] = db[e]
      BY <2>1, <2>3 DEF Undisturbed, Holding, Engine
    <2> QED BY <2>4, <2>5 DEF LoadedFlat
  <1> QED BY <1>1, CapitalInvariant, PTL DEF Spec, FlowsOnlyAtRest

(* No checkpoint, of an engine or of a rebalance, clears a latch.           *)
THEOREM LatchStays == Spec => LatchKept
  <1> DEFINE Kept == \A e \in Engine : db[e].latch => db'[e].latch
  <1>1. CapitalInv /\ [Next]_vars => [Kept]_vars
    <2> SUFFICES ASSUME CapitalInv, Next, NEW e \in Engine, db[e].latch PROVE db'[e].latch
      OBVIOUS
    <2>1. TypeOK
      BY DEF CapitalInv
    <2>2. CASE UNCHANGED db
      BY <2>2
    <2>a. ASSUME NEW x \in Engine, NEW new \in Row, SavesRow(x, new)
          PROVE  db'[e].latch
      <3>1. db' = [db EXCEPT ![x] = Checkpoint(x, new)]
        BY <2>a DEF SavesRow
      <3>2. db[x].latch => Checkpoint(x, new).latch
        BY <2>1, CheckpointFacts
      <3> QED BY <2>1, <3>1, <3>2 DEF TypeOK
    <2>b. ASSUME NEW x \in Engine
          PROVE  /\ mem[x] \in Row /\ [mem[x] EXCEPT !.open = TRUE] \in Row
                 /\ \A gain \in Gains : mem[x].cash + gain > 0 =>
                       [mem[x] EXCEPT !.open = FALSE, !.cash = mem[x].cash + gain] \in Row
      <3>1. mem[x] \in Row
        BY <2>1 DEF TypeOK
      <3>2. \A gain \in Gains : mem[x].cash + gain > 0 => mem[x].cash + gain \in Nat
        BY <3>1, CapitalAssumption DEF Row
      <3> QED BY <3>1, <3>2 DEF Row
    <2>3. CASE \E x \in Engine : Tick(x) \/ Enter(x) \/ Exit(x)
      BY <2>3, <2>a, <2>b DEF Tick, Enter, Exit
    <2>4. CASE \E j \in Jobs : StopEngines(j)
      <3>1. mem[e] \in Row
        BY <2>1 DEF TypeOK
      <3>2. db'[e] = Checkpoint(e, mem[e]) \/ db'[e] = db[e]
        BY <2>4 DEF StopEngines
      <3> QED BY <2>1, <3>1, <3>2, CheckpointFacts
    <2>5. CASE \E j \in Jobs : Save(j)
      <3>1. PICK j \in Jobs : Save(j)
        BY <2>5
      <3> DEFINE cash == [trend |-> Target(j).trend, carry |-> Target(j).total - Target(j).trend]
                 new == [job[j].rows[e] EXCEPT !.cash = cash[e]]
      <3>2. cash[e] \in Nat /\ job[j].rows[e] \in Row
        BY <2>1, TargetFacts DEF Engine, TypeOK, Job
      <3>3. new \in Row
        BY <3>2 DEF Row
      <3>4. db'[e] = db[e] \/ db'[e] = Checkpoint(e, new)
        BY <3>1 DEF Save, durable
      <3> QED BY <2>1, <3>3, <3>4, CheckpointFacts
    <2>6. CASE LatchTrend
      BY <2>1, <2>6 DEF LatchTrend, TypeOK, Row, Engine
    <2> QED BY <2>2, <2>3, <2>4, <2>5, <2>6
            DEF Next, EngineStep, Progress, Boot, EngineCrash, Start, Probe,
                Load, Register, ReadPending, RestartEngines, Abort, Reboot, durable
  <1> QED BY <1>1, CapitalInvariant, PTL DEF Spec, LatchKept

-----------------------------------------------------------------------------
(* Funding of the trend engine: the invariant. *)

FundingStages == {"down", "boot", "poll", "settle", "settled", "watch", "act", "traded", "repair"}
Moves == [at : Nat, intent : Nat, qty : 0 .. MaxLot]
Checkpoints == [pos : 0 .. MaxLot, cash : Int, cursor : 0 .. NoCursor, timeline : SUBSET Moves]

\* Every transition that some record of the engine has.
Known == row.timeline \cup memory.timeline \cup stops \cup journal

FundingTypes ==
    /\ now \in 0 .. MaxSlot /\ pc \in FundingStages /\ stopFilled \in BOOLEAN
    /\ shown \in [Slots -> {"absent", "bare", "priced"}]
    /\ \A s \in Slots : shown[s] # "absent" => s <= now
    /\ fills \in Seq([at : Nat, qty : 0 .. MaxLot])
    /\ row \in Checkpoints /\ memory \in Checkpoints /\ stops \subseteq Moves /\ journal \subseteq Moves
    /\ ledger \in [Slots -> [done : BOOLEAN, amount : 0 .. MaxLot, correction : Int]]
    /\ base \in 0 .. NoCursor

\* A recorded transition is a fill of the venue, dated when it was or later, and
\* the order of the effects is the order of the fills.
MovesFit ==
    /\ \A f \in Known : /\ f.intent \in 1 .. Len(fills) /\ f.qty = fills[f.intent].qty
                        /\ fills[f.intent].at <= f.at /\ f.at <= Stamp
                        /\ stopFilled => f.intent # Len(fills)
    /\ \A f, g \in Known : /\ f.intent = g.intent => f = g
                           /\ f.intent < g.intent => f.at <= g.at
LastFits ==
    /\ stopFilled \/ pc = "traded" => Len(fills) > 0
    /\ Len(fills) > 0 => LastFill.at <= Stamp
    /\ pc = "traded" => /\ ~stopFilled /\ LastFill.at = Stamp /\ LastFill.qty = memory.pos
                        /\ \A f \in Known : f.intent = Len(fills) => f = Transition

\* Memory may be ahead of the row by transitions only.
MemoryAgrees ==
    /\ memory.cash = row.cash /\ memory.cursor = row.cursor
    /\ row.timeline \subseteq memory.timeline
    /\ pc = "repair" => memory.timeline = row.timeline /\ Missing = {}

\* The payments of a poll are the next ones, without a hole.
QueueFits ==
    pc \in {"settle", "settled"} =>
        /\ queue # {} /\ memory.cursor # NoCursor
        /\ \A q \in queue : q.slot \in Slots /\ q.slot <= now
        /\ \A q, r \in queue : q.slot = r.slot => q = r
        /\ \A q \in queue : \A e \in Slots :
               memory.cursor < 2 * e /\ e < q.slot => \E r \in queue : r.slot = e
        /\ IF pc = "settle" THEN \A q \in queue : memory.cursor < 2 * q.slot
           ELSE /\ Payment \in queue /\ memory.cursor = 2 * Payment.slot
                /\ \A q \in queue : Payment.slot <= q.slot
LedgerFits ==
    /\ base <= row.cursor /\ (base = NoCursor <=> row.cursor = NoCursor)
    /\ \A s \in Slots : IF ledger[s].done THEN s <= now ELSE ledger[s] = NoPayment
    /\ \A s \in Slots : ledger[s].correction # 0 => Missing = {}
    /\ Missing # {} => \A s \in Slots : ledger[s].done => s \in owed

\* What is settled, or corrected, is what both timelines say.
SettledRight ==
    \A s \in Slots : ledger[s].done /\ (s \notin owed \/ ledger[s].correction # 0) =>
        Net(s) = ExposureAt(row.timeline, s) /\ Net(s) = ExposureAt(memory.timeline, s)

\* A timeline that was lost with its position is rebuilt before anything is settled.
JournalFits ==
    row.timeline = {} =>
        /\ row.pos = 0 \/ (pc \notin {"down", "traded"} /\ memory.timeline = {}) =>
               \A e \in journal : e.qty = 0
        /\ \A e \in journal : e.qty # 0 => \A s \in Slots : ledger[s].done => 2 * s < e.at

FundingInv == /\ FundingTypes /\ MovesFit /\ LastFits /\ MemoryAgrees /\ QueueFits /\ LedgerFits
              /\ SettledRight /\ JournalFits /\ LedgerIsCash /\ CursorCutsLedger

-----------------------------------------------------------------------------
(* The last of a bounded set, and the exposure in force. *)

LEMMA FundingLimits == MaxSlot \in Nat \ {0} /\ MaxLot \in Nat \ {0} /\ NoCursor \in Nat
BY FundingBounds DEF NoCursor

LEMMA LeastExists ==
    ASSUME NEW T, T \subseteq Nat, T # {}
    PROVE  \E x \in T : \A y \in T : x <= y
<1>. DEFINE R == {ss \in Nat \X Nat : ss[1] < ss[2]}
<1>1. IsWellFoundedOn(R, Nat)
  BY NatLessThanWellFounded DEF OpToRel
<1>. HIDE DEF R
<1>2. PICK x \in T : \A y \in T : ~ (<<y, x>> \in R)
  BY <1>1, WFMin, Zenon
<1>3. ASSUME NEW y \in T PROVE x <= y
  <2>1. y < x => <<y, x>> \in R
    BY DEF R
  <2>. QED
    BY <2>1, <1>2
<1>. QED
  BY <1>3

LEMMA LastExists ==
    ASSUME NEW n \in Nat, NEW S \in SUBSET (0 .. n), S # {}
    PROVE  \E m \in S : \A x \in S : x <= m
<1>. DEFINE T == {n - x : x \in S}
<1>1. T \subseteq Nat /\ T # {}
  <2>1. PICK x \in S : TRUE
    OBVIOUS
  <2>2. n - x \in T
    BY <2>1
  <2>. QED
    BY <2>2
<1>2. PICK t \in T : \A y \in T : t <= y
  BY <1>1, LeastExists
<1>3. PICK m \in S : t = n - m
  BY <1>2
<1>4. ASSUME NEW x \in S PROVE x <= m
  BY <1>2, <1>3
<1>. QED
  BY <1>4

\* Transitions, each its own intent, whose effects follow their intents.
Ordered(E, n) ==
    /\ n \in Nat /\ E \subseteq Moves
    /\ \A f \in E : f.intent \in 1 .. n
    /\ \A f, g \in E : (f.intent = g.intent => f = g) /\ (f.intent < g.intent => f.at <= g.at)

LEMMA InForceIs ==
    ASSUME NEW E, NEW n, Ordered(E, n), NEW stamp \in Nat, NEW e \in E, e.at <= stamp,
           \A f \in E : f.at <= stamp => f.intent <= e.intent
    PROVE  InForce(E, stamp) = e.qty
<1>. DEFINE past == {f \in E : f.at <= stamp}
            c == CHOOSE g \in past : \A f \in past : Follows(g, f)
<1>1. e \in past
  OBVIOUS
<1>2. \A f \in E : f.at \in Nat /\ f.intent \in Nat
  BY DEF Ordered, Moves
<1>3. \A f \in past : Follows(e, f)
  BY <1>2 DEF Ordered, Follows
<1>4. c \in past /\ \A f \in past : Follows(c, f)
  BY <1>1, <1>3
<1>. HIDE DEF c
<1>5. c.at = e.at /\ c.intent = e.intent
  BY <1>1, <1>2, <1>3, <1>4 DEF Follows
<1>6. c = e
  BY <1>1, <1>4, <1>5 DEF Ordered
<1>. QED
  BY <1>1, <1>6 DEF InForce, c

LEMMA InForceNone ==
    ASSUME NEW E, NEW stamp, \A f \in E : ~(f.at <= stamp)
    PROVE  InForce(E, stamp) = 0
<1>1. {f \in E : f.at <= stamp} = {}
  OBVIOUS
<1>. QED
  BY <1>1 DEF InForce

LEMMA InForceSome ==
    ASSUME NEW E, NEW n, Ordered(E, n), NEW stamp \in Nat, \E f \in E : f.at <= stamp
    PROVE  \E e \in E : e.at <= stamp /\ InForce(E, stamp) = e.qty
<1>. DEFINE S == {f.intent : f \in {g \in E : g.at <= stamp}}
<1>1. n \in Nat /\ S \in SUBSET (0 .. n) /\ S # {}
  BY DEF Ordered
<1>. HIDE DEF S
<1>2. PICK m \in S : \A x \in S : x <= m
  BY <1>1, LastExists
<1>. USE DEF S
<1>3. PICK e \in E : e.at <= stamp /\ e.intent = m
  OBVIOUS
<1>4. \A f \in E : f.at <= stamp => f.intent <= e.intent
  BY <1>2, <1>3
<1>5. InForce(E, stamp) = e.qty
  BY <1>3, <1>4, InForceIs
<1>. QED
  BY <1>3, <1>5

LEMMA InForceSame ==
    ASSUME NEW E, NEW F, NEW stamp, {f \in E : f.at <= stamp} = {f \in F : f.at <= stamp}
    PROVE  InForce(E, stamp) = InForce(F, stamp)
<1>. DEFINE value(past) == IF past = {} THEN 0 ELSE (CHOOSE e \in past : \A f \in past : Follows(e, f)).qty
            P == {f \in E : f.at <= stamp}
            Q == {f \in F : f.at <= stamp}
<1>1. InForce(E, stamp) = value(P) /\ InForce(F, stamp) = value(Q)
  BY DEF InForce
<1>2. P = Q
  OBVIOUS
<1>. HIDE DEF P, Q, value
<1>. QED
  BY <1>1, <1>2

LEMMA ExposureTyped ==
    ASSUME NEW E, NEW n, Ordered(E, n), NEW s \in Slots
    PROVE  ExposureAt(E, s) \in 0 .. MaxLot
<1>1. 2 * s \in Nat
  BY FundingLimits DEF Slots
<1>2. CASE \E f \in E : f.at <= 2 * s
  <2>1. PICK e \in E : InForce(E, 2 * s) = e.qty
    BY <1>1, <1>2, InForceSome
  <2>2. e.qty \in 0 .. MaxLot
    BY DEF Ordered, Moves
  <2>. QED
    BY <2>1, <2>2 DEF ExposureAt
<1>3. CASE ~\E f \in E : f.at <= 2 * s
  BY <1>3, InForceNone, FundingLimits DEF ExposureAt
<1>. QED
  BY <1>2, <1>3

LEMMA KnownOrdered ==
    ASSUME FundingInv
    PROVE  Ordered(Known, Len(fills)) /\ Ordered(row.timeline, Len(fills)) /\ Ordered(memory.timeline, Len(fills))
           /\ Ordered(journal, Len(fills))
<1>1. Len(fills) \in Nat /\ Known \subseteq Moves
  BY DEF FundingInv, FundingTypes, Checkpoints, Known
<1>. QED
  BY <1>1 DEF FundingInv, MovesFit, Known, Ordered

-----------------------------------------------------------------------------
(* Lots paid. *)

LotsPaid(net) == {u \in Slots \X (1 .. MaxLot) : u[2] <= net[u[1]]}
OthersPaid(net, s) == {u \in LotsPaid(net) : u[1] # s}

LEMMA LotsSplit ==
    ASSUME NEW net \in [Slots -> 0 .. MaxLot], NEW s \in Slots
    PROVE  /\ Cardinality(LotsPaid(net)) = Cardinality(OthersPaid(net, s)) + net[s]
           /\ Cardinality(OthersPaid(net, s)) \in Nat
<1>. USE FundingLimits
<1>. DEFINE own == {s} \X (1 .. net[s])
            others == OthersPaid(net, s)
<1>1. net[s] \in Nat /\ IsFiniteSet(1 .. net[s]) /\ Cardinality(1 .. net[s]) = net[s]
  BY FS_Interval
<1>2. IsFiniteSet({s}) /\ Cardinality({s}) = 1
  BY FS_Singleton
<1>3. IsFiniteSet(own) /\ Cardinality(own) = 1 * net[s]
  <2>1. IsFiniteSet(own) /\ Cardinality(own) = Cardinality({s}) * Cardinality(1 .. net[s])
    BY <1>1, <1>2, FS_Product, Zenon
  <2>. QED
    BY <1>1, <1>2, <2>1
<1>4. IsFiniteSet(Slots \X (1 .. MaxLot))
  <2>1. IsFiniteSet(Slots) /\ IsFiniteSet(1 .. MaxLot)
    BY FS_Interval DEF Slots
  <2>. QED
    BY <2>1, FS_Product, Zenon
<1>5. IsFiniteSet(others)
  <2>1. others \subseteq Slots \X (1 .. MaxLot)
    BY DEF OthersPaid, LotsPaid
  <2>. QED
    BY <1>4, <2>1, FS_Subset, Zenon
<1>6. LotsPaid(net) = others \cup own
  <2>1. ASSUME NEW u \in LotsPaid(net) PROVE u \in others \cup own
    BY DEF LotsPaid, OthersPaid
  <2>2. ASSUME NEW u \in own PROVE u \in LotsPaid(net)
    BY <1>1 DEF LotsPaid
  <2>. QED
    BY <2>1, <2>2 DEF OthersPaid
<1>7. others \cap own = {}
  BY DEF OthersPaid
<1>. HIDE DEF own, others
<1>8. Cardinality(others \cup own) = Cardinality(others) + Cardinality(own) - Cardinality({})
  BY <1>3, <1>5, <1>7, FS_Union
<1>9. Cardinality(others) \in Nat /\ Cardinality({}) = 0
  BY <1>5, FS_CardinalityType, FS_EmptySet
<1>10. Cardinality(LotsPaid(net)) = Cardinality(others) + net[s]
  BY <1>1, <1>3, <1>6, <1>8, <1>9
<1>. QED
  BY <1>9, <1>10 DEF others

LEMMA LotsChange ==
    ASSUME NEW net \in [Slots -> 0 .. MaxLot], NEW new \in [Slots -> 0 .. MaxLot], NEW s \in Slots,
           \A t \in Slots : t # s => new[t] = net[t]
    PROVE  /\ Cardinality(LotsPaid(new)) = Cardinality(LotsPaid(net)) - net[s] + new[s]
           /\ Cardinality(LotsPaid(net)) \in Nat
<1>1. OthersPaid(new, s) = OthersPaid(net, s)
  BY DEF OthersPaid, LotsPaid
<1>. QED
  BY <1>1, LotsSplit, FundingLimits

-----------------------------------------------------------------------------
(* Steps that leave the account alone. *)

\* What the account and the timelines are made of.
account == <<row, memory, ledger, stops, journal, fills, base, owed>>

\* The parts that speak of them alone.
LEMMA AccountStays ==
    ASSUME FundingInv, UNCHANGED account
    PROVE  LedgerIsCash' /\ CursorCutsLedger' /\ SettledRight' /\ (Missing' = Missing) /\ (Known' = Known)
<1>1. UNCHANGED <<row, memory, ledger, stops, journal, fills, base, owed>>
  BY DEF account
<1>2. LedgerIsCash'
  BY <1>1 DEF FundingInv, LedgerIsCash, Paid, Net
<1>3. CursorCutsLedger'
  BY <1>1 DEF FundingInv, CursorCutsLedger
<1>4. SettledRight'
  BY <1>1 DEF FundingInv, SettledRight, Net
<1>. QED
  BY <1>1, <1>2, <1>3, <1>4 DEF Missing, Known

\* A step of the loop that only moves on.
LEMMA QuietKeeps ==
    ASSUME FundingInv, UNCHANGED account, UNCHANGED <<now, shown, stopFilled>>,
           pc' \in FundingStages \ {"traded", "repair"}, pc \notin {"down", "traded"} \/ pc' = "down",
           QueueFits'
    PROVE  FundingInv'
<1>1. UNCHANGED <<row, memory, ledger, stops, journal, fills, base, owed, now, shown, stopFilled>>
  BY DEF account
<1>2. LedgerIsCash' /\ CursorCutsLedger' /\ SettledRight' /\ (Missing' = Missing) /\ (Known' = Known)
  BY AccountStays
<1>3. FundingTypes' /\ MovesFit' /\ LastFits'
  BY <1>1, <1>2 DEF FundingInv, FundingTypes, MovesFit, LastFits, LastFill, Transition, Stamp
<1>4. MemoryAgrees' /\ LedgerFits'
  BY <1>1, <1>2 DEF FundingInv, MemoryAgrees, LedgerFits
<1>5. JournalFits'
  BY <1>1 DEF FundingInv, JournalFits
<1>. QED
  BY <1>2, <1>3, <1>4, <1>5 DEF FundingInv

\* A process that stops loses what its memory was ahead by.
LEMMA DropKeeps ==
    ASSUME FundingInv, UNCHANGED <<row, ledger, stops, journal, fills, base, owed, now, shown, stopFilled>>,
           memory' = row, pc' = "down"
    PROVE  FundingInv'
<1>1. Known' \subseteq Known /\ Missing' = Missing
  BY DEF Known, Missing
<1>2. FundingTypes' /\ MovesFit' /\ LastFits'
  BY <1>1 DEF FundingInv, FundingTypes, FundingStages, MovesFit, LastFits, LastFill, Transition, Stamp
<1>3. MemoryAgrees' /\ LedgerFits' /\ QueueFits'
  BY <1>1 DEF FundingInv, MemoryAgrees, LedgerFits, QueueFits
<1>4. SettledRight'
  BY DEF FundingInv, SettledRight, Net
<1>5. JournalFits'
  BY DEF FundingInv, JournalFits
<1>6. LedgerIsCash' /\ CursorCutsLedger'
  BY DEF FundingInv, LedgerIsCash, Paid, Net, CursorCutsLedger
<1>. QED
  BY <1>2, <1>3, <1>4, <1>5, <1>6 DEF FundingInv

LEMMA LastTyped ==
    ASSUME FundingInv, Len(fills) > 0
    PROVE  LastFill \in [at : Nat, qty : 0 .. MaxLot] /\ LastFill.at \in Nat /\ Len(fills) \in Nat
<1>. DEFINE R == [at : Nat, qty : 0 .. MaxLot]
<1>1. fills \in Seq(R)
  BY DEF FundingInv, FundingTypes
<1>. HIDE DEF R
<1>2. Len(fills) \in Nat /\ \A i \in 1 .. Len(fills) : fills[i] \in R
  BY <1>1
<1>3. fills[Len(fills)] \in R
  BY <1>2
<1>. USE DEF R
<1>4. \A x \in R : x.at \in Nat
  OBVIOUS
<1>. QED
  BY <1>2, <1>3, <1>4 DEF LastFill

LEMMA TimeKeeps == ASSUME FundingInv, TimePasses PROVE FundingInv'
<1>1. /\ now < MaxSlot /\ now' = now + 1 /\ pc' = pc /\ pc \in {"down", "poll", "watch"}
      /\ UNCHANGED <<row, memory, ledger, stops, journal, fills, base, owed, shown, stopFilled>>
  BY DEF TimePasses, counters
<1>2. LedgerIsCash' /\ CursorCutsLedger' /\ SettledRight' /\ (Missing' = Missing) /\ (Known' = Known)
  BY <1>1, AccountStays DEF account
<1>3. now \in Nat /\ now' \in 0 .. MaxSlot
  BY <1>1, FundingLimits DEF FundingInv, FundingTypes
<1>4. FundingTypes'
  BY <1>1, <1>3, FundingLimits DEF FundingInv, FundingTypes, Slots
<1>5. MovesFit'
  <2>1. \A f \in Known : f.at \in Nat
    BY DEF FundingInv, FundingTypes, Known, Moves, Checkpoints
  <2>. QED
    BY <1>1, <1>2, <1>3, <2>1 DEF FundingInv, MovesFit, Stamp
<1>6. LastFits'
  <2>1. Len(fills) > 0 => LastFill.at \in Nat
    BY LastTyped
  <2>2. Len(fills) > 0 => LastFill.at <= Stamp'
    BY <1>1, <1>3, <2>1 DEF FundingInv, LastFits, Stamp
  <2>. QED
    BY <1>1, <2>2 DEF FundingInv, LastFits, LastFill
<1>7. MemoryAgrees' /\ QueueFits'
  BY <1>1, <1>2 DEF FundingInv, MemoryAgrees, QueueFits
<1>8. LedgerFits'
  BY <1>1, <1>2, <1>3 DEF FundingInv, LedgerFits, Slots
<1>9. JournalFits'
  BY <1>1 DEF FundingInv, JournalFits
<1>. QED
  BY <1>2, <1>4, <1>5, <1>6, <1>8, <1>9, <1>7 DEF FundingInv

LEMMA PublishKeeps == ASSUME FundingInv, NEW s \in Slots, Publish(s) PROVE FundingInv'
<1>1. /\ UNCHANGED <<row, memory, ledger, stops, journal, fills, base, owed, now, stopFilled, pc>>
      /\ pc \in {"down", "poll"} /\ s <= now
  BY DEF Publish, counters
<1>2. LedgerIsCash' /\ CursorCutsLedger' /\ SettledRight' /\ (Missing' = Missing) /\ (Known' = Known)
  BY <1>1, AccountStays DEF account
<1>3. PICK v \in {"bare", "priced"} : shown' = [shown EXCEPT ![s] = v]
  BY DEF Publish
<1>4. FundingTypes'
  <2>1. shown' \in [Slots -> {"absent", "bare", "priced"}] /\ \A t \in Slots : t # s => shown'[t] = shown[t]
    BY <1>3 DEF FundingInv, FundingTypes
  <2>. QED
    BY <1>1, <2>1 DEF FundingInv, FundingTypes
<1>5. MovesFit' /\ LastFits' /\ MemoryAgrees' /\ QueueFits' /\ LedgerFits'
  BY <1>1, <1>2 DEF FundingInv, MovesFit, LastFits, LastFill, Transition, MemoryAgrees, QueueFits, LedgerFits, Stamp
<1>6. JournalFits'
  BY <1>1 DEF FundingInv, JournalFits
<1>. QED
  BY <1>2, <1>4, <1>5, <1>6 DEF FundingInv

\* What a new fill leaves of the earlier ones.
LEMMA Appended ==
    ASSUME FundingInv, NEW x \in [at : Nat, qty : 0 .. MaxLot]
    PROVE  LET g == Append(fills, x)
           IN  /\ g \in Seq([at : Nat, qty : 0 .. MaxLot]) /\ Len(fills) \in Nat /\ Len(g) = Len(fills) + 1
               /\ g[Len(g)] = x /\ \A i \in 1 .. Len(fills) : g[i] = fills[i]
BY DEF FundingInv, FundingTypes

LEMMA StopFillsKeeps == ASSUME FundingInv, StopFills PROVE FundingInv'
<1>. USE FundingLimits
<1>1. /\ UNCHANGED <<row, memory, ledger, stops, journal, base, owed, now, shown, pc, queue>>
      /\ pc # "traded" /\ ~stopFilled /\ stopFilled' = TRUE
  BY DEF StopFills, counters
<1>2. PICK rest \in 0 .. row.pos - 1 : fills' = Append(fills, [at |-> Stamp, qty |-> rest])
  BY DEF StopFills
<1>3. [at |-> Stamp, qty |-> rest] \in [at : Nat, qty : 0 .. MaxLot]
  BY <1>2 DEF FundingInv, FundingTypes, Checkpoints, Stamp
<1>4. /\ fills' \in Seq([at : Nat, qty : 0 .. MaxLot]) /\ Len(fills) \in Nat /\ Len(fills') = Len(fills) + 1
      /\ \A i \in 1 .. Len(fills) : fills'[i] = fills[i]
  BY <1>2, <1>3, Appended
<1>5. fills'[Len(fills')].at = Stamp
  BY <1>2, <1>3, Appended
<1>6. Known' = Known /\ Missing' = Missing
  BY <1>1 DEF Known, Missing
<1>7. FundingTypes'
  BY <1>1, <1>4 DEF FundingInv, FundingTypes
<1>8. MovesFit'
  <2>1. ASSUME NEW f \in Known
        PROVE  /\ f.intent \in 1 .. Len(fills') /\ f.qty = fills'[f.intent].qty
               /\ fills'[f.intent].at <= f.at /\ f.at <= Stamp /\ f.intent # Len(fills')
    <3>1. /\ f.intent \in 1 .. Len(fills) /\ f.qty = fills[f.intent].qty
          /\ fills[f.intent].at <= f.at /\ f.at <= Stamp
      BY DEF FundingInv, MovesFit
    <3>2. fills'[f.intent] = fills[f.intent] /\ f.intent \in 1 .. Len(fills') /\ f.intent # Len(fills')
      BY <1>4, <3>1
    <3>. QED
      BY <3>1, <3>2
  <2>2. \A f, g \in Known : (f.intent = g.intent => f = g) /\ (f.intent < g.intent => f.at <= g.at)
    BY DEF FundingInv, MovesFit
  <2>3. Stamp' = Stamp
    BY <1>1 DEF Stamp
  <2>. QED
    BY <1>6, <2>1, <2>2, <2>3 DEF MovesFit
<1>9. LastFits'
  <2>1. fills'[Len(fills')].at <= Stamp
    BY <1>2, <1>4, <1>5 DEF FundingInv, FundingTypes, Stamp
  <2>. QED
    BY <1>1, <1>4, <2>1 DEF LastFits, LastFill, Stamp
<1>10. MemoryAgrees' /\ LedgerFits'
  BY <1>1, <1>4, <1>6 DEF FundingInv, MemoryAgrees, LedgerFits
<1>11. QueueFits'
  BY <1>1 DEF FundingInv, QueueFits, Payment
<1>12. SettledRight' /\ JournalFits'
  BY <1>1 DEF FundingInv, SettledRight, JournalFits, Net
<1>13. LedgerIsCash' /\ CursorCutsLedger'
  BY <1>1 DEF FundingInv, LedgerIsCash, Paid, Net, CursorCutsLedger
<1>. QED
  BY <1>7, <1>8, <1>9, <1>11, <1>12, <1>13, <1>10 DEF FundingInv

LEMMA PollKeeps == ASSUME FundingInv, PollNotDue \/ PollFails \/ NothingToObserve \/ SettleFault PROVE FundingInv'
<1>1. /\ UNCHANGED account /\ UNCHANGED <<now, shown, stopFilled>> /\ pc \notin {"down", "traded"}
      /\ pc' \in {"watch", "poll", "act"}
  BY DEF PollNotDue, PollFails, NothingToObserve, SettleFault, counters, venue, account, AfterWatch
<1>2. QueueFits'
  BY <1>1 DEF QueueFits
<1>. QED
  BY <1>1, <1>2, QuietKeeps DEF FundingStages

LEMMA LeastPayment ==
    ASSUME FundingInv, pc \in {"settle", "settled"}
    PROVE  /\ Payment \in queue /\ Payment.slot \in Slots /\ Payment.slot <= now
           /\ \A q \in queue : Payment.slot <= q.slot
<1>1. queue # {} /\ \A q \in queue : q.slot \in Slots /\ q.slot <= now
  BY DEF FundingInv, QueueFits
<1>. DEFINE S == {q.slot : q \in queue}
<1>2. S \subseteq Nat /\ S # {}
  BY <1>1, FundingLimits DEF Slots
<1>. HIDE DEF S
<1>3. PICK m \in S : \A x \in S : m <= x
  BY <1>2, LeastExists
<1>4. \E q \in queue : \A r \in queue : q.slot <= r.slot
  BY <1>3 DEF S
<1>5. Payment \in queue /\ \A r \in queue : Payment.slot <= r.slot
  BY <1>4 DEF Payment
<1>. QED
  BY <1>1, <1>5

LEMMA ReadKeeps == ASSUME FundingInv, PollRead PROVE FundingInv'
<1>1. /\ UNCHANGED account /\ UNCHANGED <<now, shown, stopFilled>> /\ pc = "poll" /\ memory.cursor # NoCursor
      /\ queue' = {[slot |-> t, priced |-> shown[t] = "priced"] : t \in Accepted}
      /\ pc' = IF queue' = {} THEN "watch" ELSE "settle"
  BY DEF PollRead, counters, venue, account
<1>2. memory' = memory
  BY <1>1 DEF account
<1>3. ASSUME NEW q \in queue'
      PROVE  /\ q.slot \in Slots /\ q.slot <= now /\ memory.cursor < 2 * q.slot
             /\ \A e \in Slots : memory.cursor < 2 * e /\ e < q.slot => \E r \in queue' : r.slot = e
             /\ q = [slot |-> q.slot, priced |-> shown[q.slot] = "priced"]
  <2>1. PICK t \in Accepted : q = [slot |-> t, priced |-> shown[t] = "priced"]
    BY <1>1
  <2>2. t \in Slots /\ 2 * t > memory.cursor /\ shown[t] # "absent" /\ Contiguous(t) /\ t \in Nat
        /\ memory.cursor \in Nat
    BY FundingLimits DEF Accepted, Due, Slots, FundingInv, FundingTypes, Checkpoints
  <2>3. t <= now
    BY <2>2 DEF FundingInv, FundingTypes
  <2>4. ASSUME NEW e \in Slots, memory.cursor < 2 * e, e < t PROVE \E r \in queue' : r.slot = e
    <3>1. shown[e] # "absent" /\ e \in Nat
      BY <2>2, <2>4 DEF Contiguous, Slots
    <3>2. Contiguous(e)
      BY <2>2, <2>4, <3>1 DEF Contiguous, Slots
    <3>3. e \in Accepted
      BY <2>2, <2>4, <3>1, <3>2 DEF Accepted, Due
    <3>4. [slot |-> e, priced |-> shown[e] = "priced"] \in queue'
      BY <1>1, <3>3
    <3>. QED
      BY <3>4
  <2>. QED
    BY <2>1, <2>2, <2>3, <2>4
<1>4. QueueFits'
  <2>1. ASSUME NEW q \in queue', NEW r \in queue', q.slot = r.slot PROVE q = r
    BY <1>3, <2>1
  <2>2. pc' = "settle" => queue' # {}
    BY <1>1
  <2>3. pc' # "settled"
    BY <1>1
  <2>4. /\ \A q \in queue' : q.slot \in Slots /\ q.slot <= now' /\ memory'.cursor < 2 * q.slot
        /\ \A q \in queue' : \A e \in Slots :
              memory'.cursor < 2 * e /\ e < q.slot => \E r \in queue' : r.slot = e
    BY <1>1, <1>2, <1>3
  <2>. QED
    BY <1>1, <1>2, <2>1, <2>2, <2>3, <2>4 DEF QueueFits
<1>. QED
  BY <1>1, <1>4, QuietKeeps DEF FundingStages

LEMMA ResolveKeeps == ASSUME FundingInv, ResolveIncident PROVE FundingInv'
<1>1. /\ UNCHANGED account /\ UNCHANGED <<now, shown, stopFilled>> /\ pc = "settled"
      /\ queue' = queue \ {Payment} /\ pc' = IF queue' = {} THEN "watch" ELSE "settle"
  BY DEF ResolveIncident, counters, venue, account
<1>2. memory' = memory
  BY <1>1 DEF account
<1>3. /\ queue # {} /\ memory.cursor # NoCursor /\ Payment \in queue
      /\ \A q \in queue : q.slot \in Slots /\ q.slot <= now /\ Payment.slot <= q.slot
      /\ \A q, r \in queue : q.slot = r.slot => q = r
      /\ \A q \in queue : \A e \in Slots : memory.cursor < 2 * e /\ e < q.slot => \E r \in queue : r.slot = e
      /\ memory.cursor = 2 * Payment.slot
  BY <1>1 DEF FundingInv, QueueFits
<1>4. \A q \in queue' : memory.cursor < 2 * q.slot
  BY <1>1, <1>3, FundingLimits DEF Slots
<1>5. ASSUME NEW q \in queue', NEW e \in Slots, memory.cursor < 2 * e, e < q.slot PROVE \E r \in queue' : r.slot = e
  <2>1. PICK r \in queue : r.slot = e
    BY <1>1, <1>3, <1>5
  <2>2. r # Payment
    BY <1>3, <1>5, <2>1, FundingLimits DEF Slots
  <2>. QED
    BY <1>1, <2>1, <2>2
<1>6. QueueFits'
  <2>1. pc' = "settle" => queue' # {}
    BY <1>1
  <2>2. pc' # "settled" /\ queue' \subseteq queue
    BY <1>1
  <2>. QED
    BY <1>1, <1>2, <1>3, <1>4, <1>5, <2>1, <2>2 DEF QueueFits
<1>. QED
  BY <1>1, <1>6, QuietKeeps DEF FundingStages

LEMMA StopsKeep == ASSUME FundingInv, Uncertain \/ ObserveStopFault \/ Crash PROVE FundingInv'
BY DropKeeps DEF Uncertain, ObserveStopFault, Crash, venue, counters

-----------------------------------------------------------------------------
(* Checkpoints. *)

LEMMA InitialKeeps == ASSUME FundingInv, PollInitial PROVE FundingInv'
<1>. USE FundingLimits
<1>1. UNCHANGED <<now, shown, stopFilled, fills, ledger, journal, stops, owed>> /\ pc = "poll" /\ memory.cursor = NoCursor
  BY DEF PollInitial, venue
<1>2. CASE memory.pos > 0
  <2>1. UNCHANGED account /\ pc' = "down"
    BY <1>1, <1>2 DEF PollInitial, account
  <2>2. QueueFits'
    BY <2>1 DEF QueueFits
  <2>. QED
    BY <1>1, <2>1, <2>2, QuietKeeps DEF FundingStages
<1>3. CASE ~(memory.pos > 0)
  <2>1. memory' = [memory EXCEPT !.cursor = Stamp] /\ row' = memory' /\ base' = Stamp /\ pc' = "watch"
    BY <1>3 DEF PollInitial
  <2>2. Stamp \in 0 .. NoCursor /\ Stamp # NoCursor
    BY DEF Stamp, NoCursor, FundingInv, FundingTypes
  <2>3. /\ memory \in Checkpoints /\ memory' \in Checkpoints /\ memory'.cursor = Stamp
        /\ memory'.cash = memory.cash /\ memory'.timeline = memory.timeline /\ memory'.pos = memory.pos
    BY <2>1, <2>2 DEF FundingInv, FundingTypes, Checkpoints
  <2>4. memory.cash = row.cash /\ row.cursor = NoCursor /\ row.timeline \subseteq memory.timeline
    BY <1>1 DEF FundingInv, MemoryAgrees
  <2>5. Known' \subseteq Known /\ Missing' \subseteq Missing
    BY <1>1, <2>1, <2>3, <2>4 DEF Known, Missing
  <2>6. FundingTypes'
    BY <1>1, <2>1, <2>2, <2>3 DEF FundingInv, FundingTypes, FundingStages
  <2>7. MovesFit' /\ LastFits' /\ MemoryAgrees' /\ QueueFits'
    BY <1>1, <2>1, <2>3, <2>5 DEF FundingInv, MovesFit, LastFits, LastFill, Transition, MemoryAgrees, QueueFits, Stamp
  <2>8. \A s \in Slots : ~ledger[s].done
    BY <2>4 DEF FundingInv, CursorCutsLedger
  <2>9. LedgerFits'
    BY <1>1, <2>1, <2>2, <2>3, <2>5, <2>8 DEF FundingInv, LedgerFits
  <2>10. SettledRight'
    BY <1>1, <2>8 DEF SettledRight
  <2>11. JournalFits'
    BY <1>1, <2>1, <2>3, <2>4, <2>8 DEF FundingInv, JournalFits
  <2>12. LedgerIsCash'
    BY <1>1, <2>1, <2>3, <2>4 DEF FundingInv, LedgerIsCash, Paid, Net
  <2>13. CursorCutsLedger'
    BY <1>1, <2>1, <2>2, <2>3, <2>8 DEF CursorCutsLedger, Slots
  <2>. QED
    BY <2>6, <2>7, <2>9, <2>10, <2>11, <2>12, <2>13 DEF FundingInv
<1>. QED
  BY <1>2, <1>3

LEMMA EndKeeps == ASSUME FundingInv, EndCycle PROVE FundingInv'
<1>1. /\ UNCHANGED <<now, shown, stopFilled, fills, ledger, journal, stops, owed, base, memory>>
      /\ pc = "act" /\ row' = memory /\ pc' = "poll"
  BY DEF EndCycle, venue, counters
<1>2. memory.cash = row.cash /\ row.cursor = memory.cursor /\ row.timeline \subseteq memory.timeline
  BY <1>1 DEF FundingInv, MemoryAgrees
<1>3. Known' \subseteq Known /\ Missing' \subseteq Missing
  BY <1>1, <1>2 DEF Known, Missing
<1>4. FundingTypes' /\ MovesFit' /\ LastFits' /\ MemoryAgrees' /\ QueueFits'
  BY <1>1, <1>3 DEF FundingInv, FundingTypes, FundingStages, MovesFit, LastFits, LastFill, Transition, MemoryAgrees, QueueFits, Stamp
<1>5. LedgerFits'
  BY <1>1, <1>2, <1>3 DEF FundingInv, LedgerFits
<1>6. SettledRight'
  BY <1>1 DEF FundingInv, SettledRight, Net
<1>7. JournalFits'
  BY <1>1, <1>2 DEF FundingInv, JournalFits
<1>8. LedgerIsCash' /\ CursorCutsLedger'
  BY <1>1, <1>2 DEF FundingInv, LedgerIsCash, Paid, Net, CursorCutsLedger
<1>. QED
  BY <1>4, <1>5, <1>6, <1>7, <1>8 DEF FundingInv

\* The transition of the last fill joins the timeline, in memory and with the next commit.
LEMMA GrowKeeps ==
    ASSUME FundingInv, NEW e, e = Entry(Stamp, Len(fills), LastFill.qty), Len(fills) > 0,
           \A f \in Known : f.intent = Len(fills) => f = e,
           memory' = [memory EXCEPT !.pos = e.qty, !.timeline = @ \cup {e}],
           \/ row' = memory' /\ stops' \in {stops, stops \cup {e}}
           \/ row' = row /\ stops' = stops,
           UNCHANGED <<now, shown, fills, ledger, journal, base, owed>>,
           stopFilled' = FALSE, pc' \in {"poll", "act"}
    PROVE  FundingInv'
<1>. USE FundingLimits
<1>1. now \in Nat /\ Len(fills) \in Nat /\ Len(fills) \in 1 .. Len(fills) /\ fills[Len(fills)] \in [at : Nat, qty : 0 .. MaxLot]
      /\ Stamp \in Nat
  <2>1. LastFill \in [at : Nat, qty : 0 .. MaxLot] /\ Len(fills) \in Nat
    BY LastTyped
  <2>2. now \in Nat /\ Stamp \in Nat
    BY DEF FundingInv, FundingTypes, Stamp
  <2>. QED
    BY <2>1, <2>2 DEF LastFill
<1>2. e \in Moves /\ e.at = Stamp /\ e.intent = Len(fills) /\ e.qty = fills[Len(fills)].qty
  BY <1>1 DEF Entry, Moves, LastFill
<1>3. /\ memory \in Checkpoints /\ memory' \in Checkpoints /\ memory'.cursor = memory.cursor
      /\ memory'.cash = memory.cash /\ memory'.timeline = memory.timeline \cup {e}
  BY <1>2 DEF FundingInv, FundingTypes, Checkpoints, Moves
<1>4. memory.cash = row.cash /\ memory.cursor = row.cursor /\ row.timeline \subseteq memory.timeline
  BY DEF FundingInv, MemoryAgrees
<1>5. Known' \subseteq Known \cup {e}
  BY <1>3, <1>4 DEF Known
<1>6. Missing' \subseteq Missing
  BY <1>3, <1>4 DEF Missing
<1>7. FundingTypes'
  BY <1>2, <1>3 DEF FundingInv, FundingTypes, FundingStages
<1>8. fills[Len(fills)].at <= Stamp
  <2>1. LET x == fills[Len(fills)] IN x.at \in Nat
    BY <1>1
  <2>. QED
    BY <1>1, <2>1 DEF FundingInv, LastFits, LastFill
<1>9. MovesFit'
  <2>1. \A f \in Known : f.intent \in 1 .. Len(fills) /\ f.at <= Stamp /\ f.at \in Nat
    BY DEF FundingInv, MovesFit, FundingTypes, Known, Moves, Checkpoints
  <2>2. ASSUME NEW f \in Known'
        PROVE  f.intent \in 1 .. Len(fills) /\ f.qty = fills[f.intent].qty /\ fills[f.intent].at <= f.at /\ f.at <= Stamp
    <3>1. CASE f = e
      BY <1>1, <1>2, <1>8, <3>1
    <3>2. CASE f \in Known
      BY <3>2 DEF FundingInv, MovesFit
    <3>. QED
      BY <1>5, <3>1, <3>2
  <2>3. ASSUME NEW f \in Known', NEW g \in Known'
        PROVE  (f.intent = g.intent => f = g) /\ (f.intent < g.intent => f.at <= g.at)
    <3>1. CASE f \in Known /\ g \in Known
      BY <3>1 DEF FundingInv, MovesFit
    <3>2. CASE f = e
      BY <1>1, <1>2, <1>5, <2>1, <3>2
    <3>3. CASE g = e
      BY <1>1, <1>2, <1>5, <2>1, <3>3
    <3>. QED
      BY <1>5, <3>1, <3>2, <3>3
  <2>. QED
    BY <2>2, <2>3 DEF MovesFit, Stamp
<1>10. LastFits' /\ MemoryAgrees' /\ QueueFits'
  BY <1>3, <1>4 DEF LastFits, MemoryAgrees, QueueFits, FundingInv, LastFill, Stamp
<1>11. LedgerFits'
  BY <1>3, <1>4, <1>6 DEF FundingInv, LedgerFits
<1>12. SettledRight'
  <2>1. ASSUME NEW s \in Slots, ledger[s].done PROVE ExposureAt(memory.timeline \cup {e}, s) = ExposureAt(memory.timeline, s)
    <3>1. s \in Nat /\ s <= now
      BY <2>1 DEF FundingInv, LedgerFits, Slots
    <3>2. ~(e.at <= 2 * s)
      BY <1>1, <1>2, <3>1 DEF Stamp
    <3>3. {f \in memory.timeline \cup {e} : f.at <= 2 * s} = {f \in memory.timeline : f.at <= 2 * s}
      BY <3>2
    <3>. QED
      BY <3>3, InForceSame DEF ExposureAt
  <2>. QED
    BY <1>3, <2>1 DEF FundingInv, SettledRight, Net
<1>13. JournalFits'
  <2>1. memory'.timeline # {}
    BY <1>3
  <2>. QED
    BY <2>1 DEF FundingInv, JournalFits
<1>14. LedgerIsCash' /\ CursorCutsLedger'
  BY <1>3, <1>4 DEF FundingInv, LedgerIsCash, Paid, Net, CursorCutsLedger
<1>. QED
  BY <1>7, <1>9, <1>10, <1>11, <1>12, <1>13, <1>14 DEF FundingInv

\* What the timeline gains is the last fill, once.
LEMMA InsertAdds ==
    ASSUME NEW tl, NEW e, e.intent \in Nat, \A f \in tl : f.intent = e.intent => f = e
    PROVE  Insert(tl, e) = tl \cup {e}
BY DEF Insert

LEMMA ObserveKeeps == ASSUME FundingInv, ObserveStop PROVE FundingInv'
<1>. DEFINE e == Entry(Stamp, Len(fills), LastFill.qty)
<1>1. /\ UNCHANGED <<now, shown, fills, ledger, journal, base, owed>> /\ pc \in {"boot", "watch"} /\ stopFilled
      /\ stopFilled' = FALSE /\ pc' \in {"poll", "act"} /\ row' = memory' /\ stops' = stops \cup {e}
      /\ memory' = [memory EXCEPT !.pos = e.qty, !.timeline = Insert(@, e)]
  BY DEF ObserveStop, counters, AfterWatch
<1>2. e.intent = Len(fills) /\ Len(fills) \in Nat /\ Len(fills) > 0
  BY <1>1 DEF Entry, FundingInv, FundingTypes, LastFits
<1>3. \A f \in Known : f.intent # Len(fills)
  BY <1>1 DEF FundingInv, MovesFit
<1>4. Insert(memory.timeline, e) = memory.timeline \cup {e}
  <2>. HIDE DEF e
  <2>. QED
    BY <1>2, <1>3, InsertAdds DEF Known
<1>5. memory' = [memory EXCEPT !.pos = e.qty, !.timeline = @ \cup {e}]
  <2>. HIDE DEF e
  <2>. QED
    BY <1>1, <1>4
<1>. HIDE DEF e
<1>. QED
  BY <1>1, <1>2, <1>3, <1>5, GrowKeeps DEF e

LEMMA RecordKeeps == ASSUME FundingInv, RecordTransition \/ RecordFault PROVE FundingInv'
<1>. DEFINE e == Entry(Stamp, Len(fills), LastFill.qty)
<1>1. /\ UNCHANGED <<now, shown, fills, ledger, journal, base, owed, stops, stopFilled>> /\ pc = "traded"
      /\ pc' \in {"poll", "act"} /\ row' \in {row, memory'}
      /\ memory' = [memory EXCEPT !.timeline = Insert(@, Transition)]
  BY DEF RecordTransition, RecordFault, counters, venue
<1>2. Transition = e /\ e.qty = memory.pos /\ Len(fills) > 0 /\ stopFilled' = FALSE
      /\ \A f \in Known : f.intent = Len(fills) => f = e
  BY <1>1 DEF FundingInv, FundingTypes, LastFits, Transition, Entry
<1>3. e.intent = Len(fills) /\ Len(fills) \in Nat
  BY DEF Entry, FundingInv, FundingTypes
<1>4. Insert(memory.timeline, e) = memory.timeline \cup {e}
  <2>. HIDE DEF e
  <2>. QED
    BY <1>2, <1>3, InsertAdds DEF Known
<1>5. memory' = [memory EXCEPT !.pos = e.qty, !.timeline = @ \cup {e}]
  <2>. HIDE DEF e
  <2>1. memory \in Checkpoints
    BY DEF FundingInv, FundingTypes
  <2>. QED
    BY <1>1, <1>2, <1>4, <2>1 DEF Checkpoints
<1>. HIDE DEF e
<1>. QED
  BY <1>1, <1>2, <1>5, GrowKeeps DEF e

LEMMA TradeKeeps == ASSUME FundingInv, Trade PROVE FundingInv'
<1>. USE FundingLimits
<1>1. /\ UNCHANGED <<now, shown, stopFilled, ledger, stops, base, owed>> /\ pc = "act" /\ ~stopFilled
      /\ row' = memory' /\ pc' = "traded"
  BY DEF Trade, counters
<1>2. PICK qty \in 0 .. MaxLot \ {memory.pos} :
          /\ fills' = Append(fills, [at |-> Stamp, qty |-> qty])
          /\ memory' = [memory EXCEPT !.pos = qty]
          /\ journal' = IF paper THEN journal \cup {Entry(Stamp, Len(fills'), qty)} ELSE journal
  BY DEF Trade
<1>3. qty \in 0 .. MaxLot /\ now \in Nat /\ Stamp \in Nat
  BY <1>2 DEF FundingInv, FundingTypes, Stamp
<1>. DEFINE e == [at |-> Stamp, intent |-> Len(fills'), qty |-> qty]
            x == [at |-> Stamp, qty |-> qty]
<1>4. x \in [at : Nat, qty : 0 .. MaxLot]
  BY <1>3
<1>5. /\ fills' \in Seq([at : Nat, qty : 0 .. MaxLot]) /\ Len(fills) \in Nat /\ Len(fills') = Len(fills) + 1
      /\ fills'[Len(fills')] = x /\ \A i \in 1 .. Len(fills) : fills'[i] = fills[i]
  BY <1>2, <1>4, Appended
<1>6. e \in Moves /\ e.at = Stamp /\ e.intent = Len(fills') /\ e.qty = qty /\ x.at = Stamp /\ x.qty = qty
  BY <1>3, <1>5 DEF Moves
<1>7. journal' \in {journal, journal \cup {e}}
  BY <1>2 DEF Entry
<1>8. /\ memory \in Checkpoints /\ memory' \in Checkpoints /\ memory'.pos = qty /\ memory'.cursor = memory.cursor
      /\ memory'.cash = memory.cash /\ memory'.timeline = memory.timeline
  BY <1>2, <1>3 DEF FundingInv, FundingTypes, Checkpoints
<1>9. memory.cash = row.cash /\ memory.cursor = row.cursor /\ row.timeline \subseteq memory.timeline
  BY DEF FundingInv, MemoryAgrees
<1>10. Known' \subseteq Known \cup {e} /\ Missing' \subseteq Missing
  BY <1>1, <1>7, <1>8, <1>9 DEF Known, Missing
<1>11. \A f \in Known : f.intent \in 1 .. Len(fills) /\ f.at <= Stamp /\ f.at \in Nat
  BY DEF FundingInv, MovesFit, FundingTypes, Known, Moves, Checkpoints
<1>. HIDE DEF e, x
<1>12. FundingTypes'
  BY <1>1, <1>5, <1>6, <1>7, <1>8 DEF FundingInv, FundingTypes, FundingStages
<1>13. MovesFit'
  <2>1. ASSUME NEW f \in Known'
        PROVE  f.intent \in 1 .. Len(fills') /\ f.qty = fills'[f.intent].qty /\ fills'[f.intent].at <= f.at /\ f.at <= Stamp
    <3>1. CASE f = e
      BY <1>3, <1>5, <1>6, <3>1
    <3>2. CASE f \in Known
      <4>1. /\ f.intent \in 1 .. Len(fills) /\ f.qty = fills[f.intent].qty
            /\ fills[f.intent].at <= f.at /\ f.at <= Stamp
        BY <3>2 DEF FundingInv, MovesFit
      <4>2. fills'[f.intent] = fills[f.intent] /\ f.intent \in 1 .. Len(fills')
        BY <1>5, <4>1
      <4>. QED
        BY <4>1, <4>2
    <3>. QED
      BY <1>10, <3>1, <3>2
  <2>2. ASSUME NEW f \in Known', NEW g \in Known'
        PROVE  (f.intent = g.intent => f = g) /\ (f.intent < g.intent => f.at <= g.at)
    <3>1. CASE f \in Known /\ g \in Known
      BY <3>1 DEF FundingInv, MovesFit
    <3>2. CASE f = e
      BY <1>5, <1>6, <1>10, <1>11, <3>2
    <3>3. CASE g = e
      BY <1>5, <1>6, <1>10, <1>11, <3>3
    <3>. QED
      BY <1>10, <3>1, <3>2, <3>3
  <2>. QED
    BY <1>1, <2>1, <2>2 DEF MovesFit, Stamp
<1>14. LastFits'
  <2>1. Transition' = e
    BY <1>5, <1>6, <1>8 DEF Transition, LastFill, Entry, e
  <2>2. \A f \in Known' : f.intent = Len(fills') => f = e
    BY <1>5, <1>10, <1>11
  <2>. QED
    BY <1>1, <1>3, <1>5, <1>6, <1>8, <2>1, <2>2 DEF LastFits, LastFill, Stamp
<1>15. MemoryAgrees' /\ QueueFits' /\ LedgerFits'
  BY <1>1, <1>8, <1>9, <1>10 DEF FundingInv, MemoryAgrees, QueueFits, LedgerFits
<1>16. SettledRight'
  BY <1>1, <1>8 DEF FundingInv, SettledRight, Net
<1>17. JournalFits'
  <2>1. ASSUME row'.timeline = {} PROVE row.timeline = {} /\ memory.timeline = {} /\ \A f \in journal : f.qty = 0
    BY <1>1, <1>8, <1>9, <2>1 DEF FundingInv, JournalFits
  <2>2. ASSUME NEW s \in Slots, ledger[s].done PROVE 2 * s < e.at
    <3>1. s \in Nat /\ s <= now
      BY <2>2 DEF FundingInv, LedgerFits, Slots
    <3>. QED
      BY <1>3, <1>6, <3>1 DEF Stamp
  <2>. QED
    BY <1>1, <1>6, <1>7, <1>8, <2>1, <2>2 DEF JournalFits
<1>18. LedgerIsCash' /\ CursorCutsLedger'
  BY <1>1, <1>8, <1>9 DEF FundingInv, LedgerIsCash, Paid, Net, CursorCutsLedger
<1>. QED
  BY <1>12, <1>13, <1>14, <1>15, <1>16, <1>17, <1>18 DEF FundingInv

-----------------------------------------------------------------------------
(* Settlements, starts and repairs. *)

\* One slot whose net amount changes, and the cash with it.
LEMMA CashFollows ==
    ASSUME FundingInv, NEW s \in Slots, NEW new \in 0 .. MaxLot, ledger' \in [Slots -> [done : BOOLEAN, amount : 0 .. MaxLot, correction : Int]],
           \A t \in Slots : t # s => ledger'[t] = ledger[t],
           ledger'[s].amount - ledger'[s].correction = new, row'.cash = row.cash + Net(s) - new
    PROVE  LedgerIsCash'
<1>. DEFINE net == [t \in Slots |-> ledger[t].amount - ledger[t].correction]
            next == [t \in Slots |-> IF t = s THEN new ELSE net[t]]
<1>1. \A t \in Slots : net[t] \in 0 .. MaxLot
  BY DEF FundingInv, LedgerIsCash, Net
<1>2. \A t \in Slots : ledger'[t].amount - ledger'[t].correction = next[t]
  OBVIOUS
<1>3. Paid = LotsPaid(net) /\ Paid' = LotsPaid(next)
  <2>1. \A u \in Slots \X (1 .. MaxLot) : u[1] \in Slots
    OBVIOUS
  <2>. QED
    BY <1>2, <2>1 DEF Paid, Net, LotsPaid
<1>4. row.cash = -Cardinality(LotsPaid(net)) /\ Net(s) = net[s]
  BY <1>3 DEF FundingInv, LedgerIsCash, Net
<1>5. net \in [Slots -> 0 .. MaxLot] /\ next \in [Slots -> 0 .. MaxLot] /\ next[s] = new /\ \A t \in Slots : t # s => next[t] = net[t]
  BY <1>1
<1>. HIDE DEF net, next
<1>6. /\ Cardinality(LotsPaid(next)) = Cardinality(LotsPaid(net)) - net[s] + new
      /\ Cardinality(LotsPaid(net)) \in Nat
  BY <1>5, LotsChange
<1>7. row'.cash = -Cardinality(LotsPaid(next))
  <2>1. net[s] \in Int /\ new \in Int
    BY <1>5, FundingLimits
  <2>. QED
    BY <1>4, <1>6, <2>1
<1>8. \A t \in Slots : Net(t)' \in 0 .. MaxLot
  BY <1>2, <1>5 DEF Net
<1>. QED
  BY <1>3, <1>7, <1>8 DEF LedgerIsCash

LEMMA SettleKeeps == ASSUME FundingInv, Settle PROVE FundingInv'
<1>. USE FundingLimits
<1>. DEFINE p == Payment.slot
            x == ExposureAt(memory.timeline, p)
<1>1. /\ UNCHANGED <<now, shown, fills, stopFilled, journal, stops, queue, base>> /\ pc = "settle" /\ pc' = "settled"
      /\ ledger' = [ledger EXCEPT ![p] = [done |-> TRUE, amount |-> x, correction |-> 0]]
      /\ memory' = [memory EXCEPT !.cash = @ - x, !.cursor = 2 * p]
      /\ row' = memory'
      /\ owed' = IF Missing = {} THEN owed ELSE owed \cup {p}
      /\ memory.timeline # {} \/ memory.pos = 0
  BY DEF Settle, venue, Exposure, Settleable, ExposureKnown
<1>2. Payment \in queue /\ p \in Slots /\ p <= now /\ \A q \in queue : p <= q.slot
  BY <1>1, LeastPayment
<1>3. x \in 0 .. MaxLot
  BY <1>2, KnownOrdered, ExposureTyped
<1>4. p \in Nat /\ p <= MaxSlot /\ p > 0 /\ x \in Nat /\ x <= MaxLot /\ 2 * p \in 0 .. NoCursor /\ 2 * p # NoCursor
      /\ Slots \subseteq Nat
  BY <1>2, <1>3 DEF Slots, NoCursor
<1>5. /\ memory.cash = row.cash /\ memory.cursor = row.cursor /\ row.timeline \subseteq memory.timeline
      /\ row.cursor < 2 * p /\ row.cursor # NoCursor /\ row.cursor \in Nat /\ row.cash \in Int
  BY <1>1, <1>2 DEF FundingInv, MemoryAgrees, QueueFits, FundingTypes, Checkpoints
<1>. HIDE DEF p, x
<1>6. /\ memory \in Checkpoints /\ memory' \in Checkpoints /\ memory'.cursor = 2 * p /\ memory'.cash = memory.cash - x
      /\ memory'.timeline = memory.timeline /\ memory'.pos = memory.pos
  <2>1. memory \in Checkpoints
    BY DEF FundingInv, FundingTypes
  <2>2. memory.cash - x \in Int
    BY <1>4, <1>5
  <2>3. memory' = [memory EXCEPT !.cash = memory.cash - x, !.cursor = 2 * p]
    BY <1>1
  <2>. QED
    BY <1>4, <2>1, <2>2, <2>3 DEF Checkpoints
<1>7. /\ ledger' \in [Slots -> [done : BOOLEAN, amount : 0 .. MaxLot, correction : Int]]
      /\ \A t \in Slots : t # p => ledger'[t] = ledger[t]
      /\ ledger'[p] = [done |-> TRUE, amount |-> x, correction |-> 0]
  BY <1>1, <1>2, <1>3 DEF FundingInv, FundingTypes
<1>8. ledger[p] = NoPayment
  <2>1. ~ledger[p].done
    BY <1>2, <1>4, <1>5 DEF FundingInv, CursorCutsLedger
  <2>. QED
    BY <1>2, <2>1 DEF FundingInv, LedgerFits
<1>9. Known' \subseteq Known /\ Missing' \subseteq Missing
  BY <1>1, <1>5, <1>6 DEF Known, Missing
<1>10. FundingTypes'
  BY <1>1, <1>6, <1>7 DEF FundingInv, FundingTypes, FundingStages
<1>11. MovesFit' /\ LastFits' /\ MemoryAgrees'
  BY <1>1, <1>9 DEF FundingInv, MovesFit, LastFits, LastFill, MemoryAgrees, Stamp
<1>12. QueueFits'
  <2>1. Payment' = Payment
    BY <1>1 DEF Payment
  <2>2. \A q \in queue : \A e \in Slots : 2 * p < 2 * e /\ e < q.slot => \E r \in queue : r.slot = e
    BY <1>1, <1>4, <1>5 DEF FundingInv, QueueFits, MemoryAgrees
  <2>. QED
    BY <1>1, <1>2, <1>4, <1>6, <2>1, <2>2 DEF FundingInv, QueueFits, p
<1>13. LedgerFits'
  <2>1. base <= row'.cursor /\ (base = NoCursor <=> row'.cursor = NoCursor)
    BY <1>1, <1>4, <1>5, <1>6 DEF FundingInv, LedgerFits, FundingTypes
  <2>2. \A s \in Slots : IF ledger'[s].done THEN s <= now ELSE ledger'[s] = NoPayment
    BY <1>2, <1>7 DEF FundingInv, LedgerFits
  <2>3. \A s \in Slots : ledger'[s].correction # 0 => Missing' = {}
    BY <1>7, <1>9 DEF FundingInv, LedgerFits
  <2>4. Missing' # {} => \A s \in Slots : ledger'[s].done => s \in owed'
    BY <1>1, <1>7, <1>9 DEF FundingInv, LedgerFits
  <2>. QED
    BY <1>1, <2>1, <2>2, <2>3, <2>4 DEF LedgerFits
<1>14. SettledRight'
  <2>1. ASSUME NEW s \in Slots, ledger'[s].done, s \notin owed' \/ ledger'[s].correction # 0
        PROVE  ledger'[s].amount - ledger'[s].correction = ExposureAt(memory.timeline, s)
    <3>1. CASE s = p
      <4>1. ledger'[s].amount = x /\ ledger'[s].correction = 0
        BY <1>7, <3>1
      <4>. QED
        BY <1>4, <3>1, <4>1 DEF x
    <3>2. CASE s # p
      <4>1. ledger'[s] = ledger[s] /\ (s \notin owed \/ ledger[s].correction # 0)
        BY <1>1, <1>7, <2>1, <3>2
      <4>. QED
        BY <2>1, <4>1 DEF FundingInv, SettledRight, Net
    <3>. QED
      BY <3>1, <3>2
  <2>. QED
    BY <1>1, <1>6, <2>1 DEF SettledRight, Net
<1>15. JournalFits'
  BY <1>1, <1>5, <1>6 DEF FundingInv, JournalFits
<1>16. LedgerIsCash'
  <2>1. Net(p) = 0
    BY <1>8 DEF Net, NoPayment
  <2>2. row'.cash = row.cash + Net(p) - x
    BY <1>1, <1>4, <1>5, <1>6, <2>1
  <2>3. ledger'[p].amount - ledger'[p].correction = x
    BY <1>4, <1>7
  <2>. QED
    BY <1>2, <1>3, <1>7, <2>2, <2>3, CashFollows
<1>17. CursorCutsLedger'
  <2>1. ASSUME NEW s \in Slots PROVE ledger'[s].done <=> base < 2 * s /\ 2 * s <= 2 * p
    <3>1. base <= row.cursor /\ base \in Nat
      BY DEF FundingInv, LedgerFits, FundingTypes
    <3>2. CASE s = p
      BY <1>4, <1>5, <1>7, <3>1, <3>2
    <3>3. CASE s # p
      <4>1. ledger'[s].done <=> base < 2 * s /\ 2 * s <= row.cursor
        BY <1>5, <1>7, <3>3 DEF FundingInv, CursorCutsLedger
      <4>2. ~(row.cursor < 2 * s /\ s < p)
        <5>1. ASSUME row.cursor < 2 * s, s < p PROVE \E r \in queue : r.slot = s
          BY <1>1, <1>2, <1>5, <5>1 DEF FundingInv, QueueFits, p
        <5>. QED
          BY <1>2, <1>4, <5>1
      <4>. QED
        BY <1>4, <1>5, <3>1, <3>3, <4>1, <4>2
    <3>. QED
      BY <3>2, <3>3
  <2>. QED
    BY <1>1, <1>4, <1>6, <2>1 DEF CursorCutsLedger
<1>. QED
  BY <1>10, <1>11, <1>12, <1>13, <1>14, <1>15, <1>16, <1>17 DEF FundingInv

LEMMA RestartKeeps == ASSUME FundingInv, Restart PROVE FundingInv'
<1>. USE FundingLimits
<1>1. /\ UNCHANGED <<now, shown, fills, stopFilled, ledger, journal, stops, base, owed>> /\ pc = "down" /\ pc' = "boot"
      /\ memory' = IF Rebuildable THEN [row EXCEPT !.timeline = journal] ELSE row
      /\ row' = memory'
  BY DEF Restart, venue, counters
<1>2. row \in Checkpoints /\ journal \subseteq Moves
  BY DEF FundingInv, FundingTypes
<1>3. /\ row' \in Checkpoints /\ row'.pos = row.pos /\ row'.cash = row.cash /\ row'.cursor = row.cursor
      /\ row'.timeline = row.timeline \/ (row.timeline = {} /\ row'.timeline = journal)
      /\ row'.timeline = {} => row.timeline = {} /\ (row.pos = 0 \/ journal = {})
      /\ row.timeline \subseteq row'.timeline
  BY <1>1, <1>2 DEF Checkpoints, Rebuildable
<1>4. Known' \subseteq Known /\ Missing' \subseteq Missing
  BY <1>1, <1>3 DEF Known, Missing
<1>5. FundingTypes'
  BY <1>1, <1>3 DEF FundingInv, FundingTypes, FundingStages
<1>6. MovesFit' /\ LastFits' /\ MemoryAgrees' /\ QueueFits'
  BY <1>1, <1>4 DEF FundingInv, MovesFit, LastFits, LastFill, MemoryAgrees, QueueFits, Stamp
<1>7. LedgerFits'
  BY <1>1, <1>3, <1>4 DEF FundingInv, LedgerFits
<1>8. SettledRight'
  <2>1. ASSUME NEW s \in Slots, ledger[s].done, row.timeline = {} PROVE ExposureAt(journal, s) = ExposureAt({}, s)
    <3>1. ExposureAt({}, s) = 0
      BY InForceNone DEF ExposureAt
    <3>2. 2 * s \in Nat
      BY DEF Slots
    <3>3. \A e \in journal : e.at <= 2 * s => e.qty = 0
      <4>1. \A e \in journal : e.qty # 0 => 2 * s < e.at
        BY <2>1 DEF FundingInv, JournalFits
      <4>2. \A e \in journal : e.at \in Nat
        BY <1>2 DEF Moves
      <4>. QED
        BY <3>2, <4>1, <4>2
    <3>4. CASE \E e \in journal : e.at <= 2 * s
      <4>1. PICK e \in journal : e.at <= 2 * s /\ InForce(journal, 2 * s) = e.qty
        BY <3>2, <3>4, KnownOrdered, InForceSome
      <4>. QED
        BY <3>1, <3>3, <4>1 DEF ExposureAt
    <3>5. CASE ~\E e \in journal : e.at <= 2 * s
      BY <3>1, <3>5, InForceNone DEF ExposureAt
    <3>. QED
      BY <3>4, <3>5
  <2>2. \A s \in Slots : ledger[s].done /\ (s \notin owed \/ ledger[s].correction # 0) => Net(s) = ExposureAt(row'.timeline, s)
    BY <1>3, <2>1 DEF FundingInv, SettledRight
  <2>. QED
    BY <1>1, <2>2 DEF SettledRight, Net
<1>9. JournalFits'
  BY <1>1, <1>3 DEF FundingInv, JournalFits
<1>10. LedgerIsCash' /\ CursorCutsLedger'
  BY <1>1, <1>3 DEF FundingInv, LedgerIsCash, Paid, Net, CursorCutsLedger
<1>. QED
  BY <1>5, <1>6, <1>7, <1>8, <1>9, <1>10 DEF FundingInv

LEMMA RepairKeeps == ASSUME FundingInv, RepairTimeline PROVE FundingInv'
<1>1. /\ UNCHANGED <<now, shown, fills, stopFilled, ledger, journal, stops, base, owed>> /\ pc = "down" /\ pc' = "repair"
      /\ row.pos = 0 /\ row' = [row EXCEPT !.timeline = @ \cup Missing] /\ memory' = row'
  BY DEF RepairTimeline, venue, counters
<1>2. row \in Checkpoints /\ stops \subseteq Moves /\ Missing \subseteq stops
  BY DEF FundingInv, FundingTypes, Missing
<1>3. /\ row' \in Checkpoints /\ row'.pos = row.pos /\ row'.cash = row.cash /\ row'.cursor = row.cursor
      /\ row'.timeline = row.timeline \cup Missing
  BY <1>1, <1>2 DEF Checkpoints
<1>4. Known' \subseteq Known
  BY <1>1, <1>2, <1>3 DEF Known
<1>5. Missing' = {}
  <2>1. ASSUME NEW e \in stops PROVE \E f \in row'.timeline : f.intent = e.intent
    BY <1>3 DEF Missing
  <2>. QED
    BY <1>1, <2>1 DEF Missing
<1>6. FundingTypes'
  BY <1>1, <1>3 DEF FundingInv, FundingTypes, FundingStages
<1>7. MovesFit' /\ LastFits' /\ MemoryAgrees' /\ QueueFits'
  BY <1>1, <1>4, <1>5 DEF FundingInv, MovesFit, LastFits, LastFill, MemoryAgrees, QueueFits, Stamp
<1>8. LedgerFits'
  BY <1>1, <1>3, <1>5 DEF FundingInv, LedgerFits
<1>9. SettledRight'
  <2>1. CASE Missing = {}
    BY <1>1, <1>3, <2>1 DEF FundingInv, SettledRight, Net
  <2>2. CASE Missing # {}
    BY <1>1, <2>2 DEF FundingInv, LedgerFits, SettledRight, Net
  <2>. QED
    BY <2>1, <2>2
<1>10. JournalFits'
  BY <1>1, <1>3 DEF FundingInv, JournalFits
<1>11. LedgerIsCash' /\ CursorCutsLedger'
  BY <1>1, <1>3 DEF FundingInv, LedgerIsCash, Paid, Net, CursorCutsLedger
<1>. QED
  BY <1>6, <1>7, <1>8, <1>9, <1>10, <1>11 DEF FundingInv

LEMMA AdjustKeeps == ASSUME FundingInv, Adjust PROVE FundingInv'
<1>. USE FundingLimits
<1>1. /\ UNCHANGED <<now, shown, fills, stopFilled, journal, stops, queue, base, owed>> /\ pc = "repair" /\ pc' = "repair"
      /\ memory' = row'
  BY DEF Adjust, venue, counters
<1>2. PICK s \in Slots : /\ Adjustable(s)
                         /\ ledger' = [ledger EXCEPT ![s].correction = Deviation(s)]
                         /\ row' = [row EXCEPT !.cash = @ + Deviation(s)]
  BY DEF Adjust
<1>. DEFINE x == ExposureAt(row.timeline, s)
<1>3. x \in 0 .. MaxLot
  BY KnownOrdered, ExposureTyped
<1>4. ledger[s].done /\ ledger[s].correction = 0 /\ Deviation(s) = ledger[s].amount - x
  BY <1>2 DEF Adjustable, Deviation
<1>. HIDE DEF x
<1>5. ledger \in [Slots -> [done : BOOLEAN, amount : 0 .. MaxLot, correction : Int]] /\ row \in Checkpoints
  BY DEF FundingInv, FundingTypes
<1>6. ledger[s].amount \in Int /\ x \in Int /\ Deviation(s) \in Int /\ row.cash \in Int
  BY <1>3, <1>4, <1>5 DEF Checkpoints
<1>7. /\ ledger' \in [Slots -> [done : BOOLEAN, amount : 0 .. MaxLot, correction : Int]]
      /\ \A t \in Slots : t # s => ledger'[t] = ledger[t]
      /\ ledger'[s].done = ledger[s].done /\ ledger'[s].amount = ledger[s].amount /\ ledger'[s].correction = Deviation(s)
  BY <1>2, <1>5, <1>6
<1>8. /\ row' \in Checkpoints /\ row'.pos = row.pos /\ row'.cursor = row.cursor /\ row'.timeline = row.timeline
      /\ row'.cash = row.cash + Deviation(s)
  <2>1. row' = [row EXCEPT !.cash = row.cash + Deviation(s)] /\ row.cash + Deviation(s) \in Int
    BY <1>2, <1>6
  <2>. QED
    BY <1>5, <2>1 DEF Checkpoints
<1>9. memory.timeline = row.timeline /\ Missing = {}
  BY <1>1 DEF FundingInv, MemoryAgrees
<1>10. Known' = Known /\ Missing' = {}
  BY <1>1, <1>8, <1>9 DEF Known, Missing
<1>11. FundingTypes'
  BY <1>1, <1>7, <1>8 DEF FundingInv, FundingTypes
<1>12. MovesFit' /\ LastFits' /\ MemoryAgrees' /\ QueueFits'
  BY <1>1, <1>10 DEF FundingInv, MovesFit, LastFits, LastFill, MemoryAgrees, QueueFits, Stamp
<1>13. LedgerFits'
  <2>1. \A t \in Slots : IF ledger'[t].done THEN t <= now ELSE ledger'[t] = NoPayment
    BY <1>4, <1>7 DEF FundingInv, LedgerFits
  <2>. QED
    BY <1>1, <1>8, <1>10, <2>1 DEF FundingInv, LedgerFits
<1>14. ledger'[s].amount - ledger'[s].correction = x
  BY <1>4, <1>6, <1>7
<1>15. SettledRight'
  <2>1. ASSUME NEW t \in Slots, ledger'[t].done, t \notin owed \/ ledger'[t].correction # 0
        PROVE  ledger'[t].amount - ledger'[t].correction = ExposureAt(row.timeline, t)
    <3>1. CASE t = s
      BY <1>14, <3>1 DEF x
    <3>2. CASE t # s
      <4>1. ledger'[t] = ledger[t]
        BY <1>7, <3>2
      <4>. QED
        BY <2>1, <4>1 DEF FundingInv, SettledRight, Net
    <3>. QED
      BY <3>1, <3>2
  <2>. QED
    BY <1>1, <1>8, <2>1 DEF SettledRight, Net
<1>16. JournalFits'
  <2>1. \A t \in Slots : ledger'[t].done = ledger[t].done
    BY <1>7
  <2>. QED
    BY <1>1, <1>8, <1>9, <2>1 DEF FundingInv, JournalFits
<1>17. LedgerIsCash'
  <2>1. Net(s) = ledger[s].amount
    BY <1>4, <1>6 DEF Net
  <2>2. row'.cash = row.cash + Net(s) - x
    BY <1>4, <1>6, <1>8, <2>1
  <2>. QED
    BY <1>3, <1>7, <1>14, <2>2, CashFollows
<1>18. CursorCutsLedger'
  <2>1. \A t \in Slots : ledger'[t].done = ledger[t].done
    BY <1>7
  <2>. QED
    BY <1>1, <1>8, <2>1 DEF FundingInv, CursorCutsLedger
<1>. QED
  BY <1>11, <1>12, <1>13, <1>15, <1>16, <1>17, <1>18 DEF FundingInv

LEMMA RepairEndKeeps == ASSUME FundingInv, RepairEnds PROVE FundingInv'
<1>1. /\ UNCHANGED <<row, memory, now, shown, fills, stopFilled, ledger, journal, stops, base>>
      /\ pc = "repair" /\ pc' = "down" /\ owed' = {} /\ \A s \in Slots : ~Adjustable(s)
  BY DEF RepairEnds, venue
<1>2. memory.timeline = row.timeline /\ Missing = {}
  BY <1>1 DEF FundingInv, MemoryAgrees
<1>3. Known' = Known /\ Missing' = Missing
  BY <1>1 DEF Known, Missing
<1>4. FundingTypes' /\ MovesFit' /\ LastFits' /\ MemoryAgrees' /\ QueueFits'
  BY <1>1, <1>3 DEF FundingInv, FundingTypes, FundingStages, MovesFit, LastFits, LastFill, MemoryAgrees, QueueFits, Stamp
<1>5. LedgerFits'
  BY <1>1, <1>2, <1>3 DEF FundingInv, LedgerFits
<1>6. SettledRight'
  <2>1. ASSUME NEW s \in Slots, ledger[s].done PROVE Net(s) = ExposureAt(row.timeline, s)
    <3>1. CASE ledger[s].correction = 0
      <4>1. Deviation(s) = 0
        BY <1>1, <2>1, <3>1 DEF Adjustable
      <4>2. ExposureAt(row.timeline, s) \in Int
        <5>1. ExposureAt(row.timeline, s) \in 0 .. MaxLot
          BY KnownOrdered, ExposureTyped
        <5>. QED
          BY <5>1, FundingLimits
      <4>3. ledger[s].amount \in Int
        BY FundingLimits DEF FundingInv, FundingTypes
      <4>. QED
        BY <3>1, <4>1, <4>2, <4>3 DEF Deviation, Net
    <3>2. CASE ledger[s].correction # 0
      BY <2>1, <3>2 DEF FundingInv, SettledRight
    <3>. QED
      BY <3>1, <3>2
  <2>. QED
    BY <1>1, <1>2, <2>1 DEF SettledRight, Net
<1>7. JournalFits'
  BY <1>1 DEF FundingInv, JournalFits
<1>8. LedgerIsCash' /\ CursorCutsLedger'
  BY <1>1 DEF FundingInv, LedgerIsCash, Paid, Net, CursorCutsLedger
<1>. QED
  BY <1>4, <1>5, <1>6, <1>7, <1>8 DEF FundingInv

LEMMA StutterKeeps ==
    ASSUME FundingInv, StartRefused \/ OperatorResets \/ UNCHANGED fundingVars
    PROVE  FundingInv'
<1>1. UNCHANGED <<row, memory, now, shown, fills, stopFilled, ledger, journal, stops, base, owed, pc, queue>>
  BY DEF StartRefused, OperatorResets, venue, fundingVars
<1>2. LedgerIsCash' /\ CursorCutsLedger' /\ SettledRight' /\ (Missing' = Missing) /\ (Known' = Known)
  BY <1>1, AccountStays DEF account
<1>3. FundingTypes' /\ MovesFit' /\ LastFits' /\ MemoryAgrees' /\ LedgerFits' /\ JournalFits'
  BY <1>1, <1>2 DEF FundingInv, FundingTypes, MovesFit, LastFits, LastFill, Transition, MemoryAgrees, LedgerFits, JournalFits, Stamp
<1>4. QueueFits'
  BY <1>1 DEF FundingInv, QueueFits, Payment
<1>. QED
  BY <1>2, <1>3, <1>4 DEF FundingInv

-----------------------------------------------------------------------------
(* The theorems. *)

LEMMA FundingStarts == FundingInit => FundingInv
<1>. USE FundingLimits
<1>. SUFFICES ASSUME FundingInit PROVE FundingInv
  OBVIOUS
<1>1. /\ journal = {} /\ stopFilled = FALSE /\ memory = row /\ pc = "down" /\ queue = {}
      /\ Fresh \/ OldPosition \/ OldStop
  BY DEF FundingInit
<1>2. QueueFits /\ JournalFits
  BY <1>1 DEF QueueFits, JournalFits
<1>3. MaxSlot \in Nat /\ MaxSlot >= 1 /\ MaxLot \in Nat /\ MaxLot >= 1 /\ NoCursor = 2 * MaxSlot + 2
  BY DEF NoCursor
<1>4. CASE Fresh \/ OldPosition
  <2>1. /\ now = 0 /\ base \in {NoCursor, 1} /\ owed = {} /\ stops = {}
        /\ row \in [pos : {0, 1}, cash : {0}, cursor : {base}, timeline : {{}}]
        /\ ledger = [s \in Slots |-> NoPayment] /\ shown = [s \in Slots |-> "absent"]
        /\ fills \in {<<>>, <<[at |-> 0, qty |-> 1]>>}
    BY <1>4 DEF Fresh, OldPosition
  <2>2. /\ row.cash = 0 /\ row.cursor = base /\ row.timeline = {} /\ row.pos \in {0, 1}
        /\ row \in [pos : {0, 1}, cash : {0}, cursor : {base}, timeline : {{}}]
    BY <2>1
  <2>3. row \in Checkpoints
    BY <1>3, <2>1, <2>2 DEF Checkpoints
  <2>4. fills \in Seq([at : Nat, qty : 0 .. MaxLot]) /\ (Len(fills) > 0 => LastFill.at = 0)
    <3>1. CASE fills = <<>>
      BY <3>1
    <3>2. CASE fills = <<[at |-> 0, qty |-> 1]>>
      <4>1. Len(fills) = 1 /\ fills[1] = [at |-> 0, qty |-> 1]
        BY <3>2
      <4>2. fills \in Seq([at : Nat, qty : 0 .. MaxLot])
        BY <1>3, <3>2
      <4>. QED
        BY <4>1, <4>2 DEF LastFill
    <3>. QED
      BY <2>1, <3>1, <3>2
  <2>5. Known = {} /\ Missing = {}
    BY <1>1, <2>1, <2>2 DEF Known, Missing
  <2>6. \A s \in Slots : ledger[s] = NoPayment /\ ~ledger[s].done /\ ledger[s].correction = 0 /\ Net(s) = 0
    BY <2>1 DEF NoPayment, Net
  <2>7. FundingTypes
    <3>1. ledger \in [Slots -> [done : BOOLEAN, amount : 0 .. MaxLot, correction : Int]]
      BY <1>3, <2>1 DEF NoPayment
    <3>2. now \in 0 .. MaxSlot /\ base \in 0 .. NoCursor
      BY <1>3, <2>1
    <3>3. shown \in [Slots -> {"absent", "bare", "priced"}] /\ \A s \in Slots : shown[s] # "absent" => s <= now
      BY <2>1
    <3>4. stops \subseteq Moves /\ journal \subseteq Moves
      BY <1>1, <2>1
    <3>. QED
      BY <1>1, <2>3, <2>4, <3>1, <3>2, <3>3, <3>4 DEF FundingTypes, FundingStages
  <2>8. MovesFit /\ LastFits /\ MemoryAgrees
    BY <1>1, <2>1, <2>4, <2>5 DEF MovesFit, LastFits, MemoryAgrees, Stamp
  <2>9. LedgerFits
    BY <1>3, <2>1, <2>2, <2>5, <2>6 DEF LedgerFits
  <2>10. SettledRight
    BY <2>6 DEF SettledRight
  <2>11. LedgerIsCash
    <3>1. Paid = {}
      BY <1>3, <2>6 DEF Paid
    <3>. QED
      BY <1>3, <2>2, <2>6, <3>1, FS_EmptySet DEF LedgerIsCash
  <2>12. CursorCutsLedger
    <3>1. \A s \in Slots : ~(base < 2 * s /\ 2 * s <= row.cursor)
      BY <1>3, <2>1, <2>2 DEF Slots
    <3>. QED
      BY <2>6, <3>1 DEF CursorCutsLedger
  <2>. QED
    BY <1>2, <2>7, <2>8, <2>9, <2>10, <2>11, <2>12 DEF FundingInv
<1>5. CASE OldStop
  <2>. DEFINE e == [at |-> 0, intent |-> 1, qty |-> 1]
              f == [at |-> 1, intent |-> 2, qty |-> 0]
              paid == [done |-> TRUE, amount |-> 1, correction |-> 0]
  <2>1. /\ now = 1 /\ base = 0 /\ owed = {1} /\ stops = {f} /\ fills = <<[at |-> 0, qty |-> 1], [at |-> 1, qty |-> 0]>>
        /\ row = [pos |-> 0, cash |-> -1, cursor |-> 2, timeline |-> {e}]
        /\ ledger = [s \in Slots |-> IF s = 1 THEN paid ELSE NoPayment]
        /\ shown = [s \in Slots |-> IF s = 1 THEN "priced" ELSE "absent"]
    BY <1>5 DEF OldStop, Entry
  <2>2. /\ row.cash = -1 /\ row.cursor = 2 /\ row.timeline = {e} /\ row.pos = 0 /\ 1 \in Slots /\ 2 # NoCursor
    BY <1>3, <2>1 DEF Slots
  <2>3. e \in Moves /\ f \in Moves
    BY <1>3 DEF Moves
  <2>4. row \in Checkpoints
    BY <1>3, <2>1, <2>3 DEF Checkpoints
  <2>5. /\ fills \in Seq([at : Nat, qty : 0 .. MaxLot]) /\ Len(fills) = 2
        /\ fills[1] = [at |-> 0, qty |-> 1] /\ fills[2] = [at |-> 1, qty |-> 0]
    BY <1>3, <2>1
  <2>6. Known = {e, f} /\ Missing \subseteq stops
    BY <1>1, <2>1, <2>2 DEF Known, Missing
  <2>7. ledger[1] = paid /\ \A s \in Slots : s # 1 => ledger[s] = NoPayment
    BY <2>1, <2>2
  <2>8. /\ Net(1) = 1 /\ ledger[1].done /\ \A s \in Slots : s # 1 => Net(s) = 0 /\ ~ledger[s].done
        /\ \A s \in Slots : ledger[s].correction = 0
    BY <2>2, <2>7 DEF NoPayment, Net
  <2>9. FundingTypes
    <3>1. ledger \in [Slots -> [done : BOOLEAN, amount : 0 .. MaxLot, correction : Int]]
      BY <1>3, <2>1 DEF NoPayment
    <3>2. shown \in [Slots -> {"absent", "bare", "priced"}] /\ \A s \in Slots : shown[s] # "absent" => s <= now
      BY <2>1
    <3>3. now \in 0 .. MaxSlot /\ base \in 0 .. NoCursor
      BY <1>3, <2>1
    <3>4. stops \subseteq Moves /\ journal \subseteq Moves
      BY <1>1, <2>1, <2>3
    <3>. QED
      BY <1>1, <2>4, <2>5, <3>1, <3>2, <3>3, <3>4 DEF FundingTypes, FundingStages
  <2>10. MovesFit
    BY <1>1, <2>1, <2>5, <2>6 DEF MovesFit, Stamp
  <2>11. LastFits /\ MemoryAgrees
    BY <1>1, <2>1, <2>2, <2>5 DEF LastFits, LastFill, MemoryAgrees, Stamp
  <2>12. LedgerFits
    BY <1>3, <2>1, <2>2, <2>7, <2>8 DEF LedgerFits
  <2>13. SettledRight
    BY <2>1, <2>8 DEF SettledRight
  <2>14. LedgerIsCash
    <3>1. Paid = {<<1, 1>>}
      <4>1. ASSUME NEW u \in Slots \X (1 .. MaxLot) PROVE u[2] <= Net(u[1]) <=> u = <<1, 1>>
        BY <1>3, <2>2, <2>8
      <4>2. <<1, 1>> \in Slots \X (1 .. MaxLot)
        BY <1>3, <2>2
      <4>. QED
        BY <4>1, <4>2 DEF Paid
    <3>2. Cardinality(Paid) = 1
      BY <3>1, FS_Singleton
    <3>. QED
      BY <1>3, <2>2, <2>8, <3>2 DEF LedgerIsCash
  <2>15. CursorCutsLedger
    BY <1>3, <2>1, <2>2, <2>8 DEF CursorCutsLedger, Slots
  <2>. QED
    BY <1>2, <2>9, <2>10, <2>11, <2>12, <2>13, <2>14, <2>15 DEF FundingInv
<1>. QED
  BY <1>1, <1>4, <1>5

LEMMA FundingSteps == FundingInv /\ [FundingNext]_fundingVars => FundingInv'
<1>. SUFFICES ASSUME FundingInv, [FundingNext]_fundingVars PROVE FundingInv'
  OBVIOUS
<1>1. CASE TimePasses \/ StopFills \/ Crash \/ Restart
  BY <1>1, TimeKeeps, StopFillsKeeps, StopsKeep, RestartKeeps
<1>2. CASE Step
  BY <1>2, PollKeeps, InitialKeeps, ReadKeeps, StopsKeep, SettleKeeps, ResolveKeeps, ObserveKeeps, TradeKeeps,
     RecordKeeps, EndKeeps DEF Step
<1>3. CASE Repair
  BY <1>3, RepairKeeps, AdjustKeeps, RepairEndKeeps DEF Repair
<1>4. CASE \E s \in Slots : Publish(s)
  BY <1>4, PublishKeeps
<1>5. CASE StartRefused \/ OperatorResets \/ UNCHANGED fundingVars
  BY <1>5, StutterKeeps
<1>. QED
  BY <1>1, <1>2, <1>3, <1>4, <1>5 DEF FundingNext

LEMMA FillTyped ==
    ASSUME FundingInv, NEW i \in 1 .. Len(fills)
    PROVE  fills[i].at \in Nat
<1>. DEFINE R == [at : Nat, qty : 0 .. MaxLot]
<1>1. fills \in Seq(R)
  BY DEF FundingInv, FundingTypes
<1>2. \A x \in R : x.at \in Nat
  OBVIOUS
<1>. HIDE DEF R
<1>3. fills[i] \in R
  BY <1>1
<1>. QED
  BY <1>2, <1>3

\* The timeline's exposure is the venue's, where it knew the fill in force.
LEMMA ExposureIsHeld ==
    ASSUME FundingInv, NEW s \in Slots, KnownAt(s)
    PROVE  ExposureAt(row.timeline, s) = HeldAt(s)
<1>. DEFINE past == {i \in DOMAIN fills : fills[i].at <= 2 * s}
<1>1. 2 * s \in Nat /\ Len(fills) \in Nat /\ DOMAIN fills = 1 .. Len(fills)
  BY FundingLimits DEF Slots, FundingInv, FundingTypes
<1>2. \A f \in row.timeline : /\ f.intent \in 1 .. Len(fills) /\ f.qty = fills[f.intent].qty
                              /\ fills[f.intent].at <= f.at
                              /\ \A g \in row.timeline : f.intent = g.intent => f = g
  BY DEF FundingInv, MovesFit, Known
<1>3. \A f \in row.timeline : f.at \in Nat /\ fills[f.intent].at \in Nat
  <2>1. \A f \in row.timeline : f.at \in Nat
    BY DEF FundingInv, FundingTypes, Checkpoints, Moves
  <2>2. \A i \in 1 .. Len(fills) : fills[i].at \in Nat
    BY FillTyped
  <2>. QED
    BY <1>2, <2>1, <2>2
<1>4. \A f \in row.timeline : f.at <= 2 * s => f.intent \in past
  BY <1>1, <1>2, <1>3
<1>5. FillAt(s) = IF past = {} THEN 0 ELSE Max(past)
  BY DEF FillAt
<1>. HIDE DEF past
<1>6. CASE past = {}
  <2>1. \A f \in row.timeline : ~(f.at <= 2 * s)
    BY <1>4, <1>6
  <2>2. HeldAt(s) = 0
    BY <1>5, <1>6 DEF HeldAt
  <2>. QED
    BY <2>1, <2>2, InForceNone DEF ExposureAt
<1>7. CASE past # {}
  <2>1. past \in SUBSET (0 .. Len(fills)) /\ 0 \notin past
    BY <1>1 DEF past
  <2>2. \E m \in past : \A i \in past : i <= m
    BY <1>1, <1>7, <2>1, LastExists
  <2>3. Max(past) \in past /\ \A i \in past : i <= Max(past)
    <3>1. \E m \in past : \A i \in past : m >= i
      BY <2>2
    <3>. QED
      BY <3>1 DEF Max
  <2>4. FillAt(s) \in past /\ FillAt(s) # 0 /\ \A i \in past : i <= FillAt(s)
    BY <1>5, <1>7, <2>1, <2>3
  <2>5. PICK e \in row.timeline : e.intent = FillAt(s) /\ e.at <= 2 * s
    BY <2>4 DEF KnownAt
  <2>6. \A f \in row.timeline : f.at <= 2 * s => f.intent <= e.intent
    BY <1>4, <2>4, <2>5
  <2>7. InForce(row.timeline, 2 * s) = e.qty
    BY <1>1, <2>5, <2>6, KnownOrdered, InForceIs
  <2>8. HeldAt(s) = e.qty
    BY <1>2, <2>4, <2>5 DEF HeldAt
  <2>. QED
    BY <2>7, <2>8 DEF ExposureAt
<1>. QED
  BY <1>6, <1>7

LEMMA FundingInvExact == FundingInv => LedgerIsExact
<1>. SUFFICES ASSUME FundingInv PROVE LedgerIsExact
  OBVIOUS
<1>1. ASSUME NEW s \in Slots \ owed, ledger[s].done, KnownAt(s) PROVE Net(s) = HeldAt(s)
  BY <1>1, ExposureIsHeld DEF FundingInv, SettledRight
<1>2. SettledAtExposure
  BY <1>1 DEF SettledAtExposure
<1>. QED
  BY <1>2 DEF FundingInv, LedgerIsExact

\* The inductive invariant of the funding of the trend engine, for every number of slots,
\* lots, fills, kills and store errors: the records of the engine are fills of the venue in
\* their order, a poll holds the next payments without a hole, and what is settled is what
\* both timelines, the durable and the one in memory, say (runner.py:1253).
THEOREM FundingInvariant == FundingSpec => []FundingInv
BY FundingStarts, FundingSteps, PTL DEF FundingSpec

\* The ledger explains the cash, the cursor cuts it, and each payment is settled at what
\* the venue held at its time: published late, out of order, refused, or cut by a kill
\* between any two commits (funding_service.py:56).
THEOREM FundingIsExact == FundingSpec => []LedgerIsExact
BY FundingInvariant, FundingInvExact, PTL

=============================================================================
