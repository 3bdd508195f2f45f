----------------------------- MODULE PaperProofs -----------------------------
(***************************************************************************)
(* The PAPER engines and what stands between them and the testnet.  The    *)
(* position is what the applied fills add up to: rows that agree with      *)
(* their plan, the order in hand at its step, a memory that follows the    *)
(* durable state, and a balance counted lot by lot.  What the gate admits  *)
(* was bound to its release from the first command to the last, whatever   *)
(* is switched, recorded, started, canceled and finished between any two   *)
(* steps of a command; the coverage it is measured by is exact for every   *)
(* set of samples.                                                         *)
(***************************************************************************)
EXTENDS PaperOrder, Qualification, FiniteSetTheorems, WellFoundedInduction, TLAPS

(***************************************************************************)
(* The orders (PaperOrder).                                                *)
(***************************************************************************)

-----------------------------------------------------------------------------
(* The invariant. *)

\* A plan takes the whole position it was made from, or enters from none.
PlanFits(id, o) ==
    o.local # "absent" =>
        /\ id.seq < MaxSeq /\ o.pre \in Engine
        /\ o.req = IF o.exit THEN o.pre.pos ELSE MaxLot
        /\ ~o.exit => o.pre.pos = 0

\* A fill is a part of what was asked, observed before, applied after; d is
\* what the simulator drew.
FillFits(o, d) ==
    /\ o.fill <= o.req
    /\ o.fill > 0 => o.local \in {"PENDING_RECONCILIATION", "TERMINAL"} /\ o.external # "none"
    /\ o.after # NoState => o.fill > 0
    /\ d = "PARTIAL_TERMINAL" => o.local # "absent" /\ o.req > 1

RowsFit == \A id \in Ids : PlanFits(id, orders[id]) /\ FillFits(orders[id], draw[id])

\* The order in hand is there, and has a fill only once its evidence is durable.
HandFits ==
    /\ hand.step # "none" => hand.id \in Ids /\ up = "loop" /\ orders[hand.id].local # "absent"
    /\ hand.step \in {"reserved", "submitting", "answered", "observed"} => orders[hand.id].fill = 0
    /\ hand.step = "answered" => draw[hand.id] # "none"
    /\ hand.step = "observed" => /\ orders[hand.id].local = "PENDING_RECONCILIATION"
                                 /\ orders[hand.id].external # "none"

\* The loop holds the durable position except between an application and the
\* reload that follows it.
MemoryFollows == up = "loop" /\ hand.step # "applied" => mem.pos = durable.pos
Balance == durable.pos + Cardinality(Lots(TRUE)) = Cardinality(Lots(FALSE))

PaperInv == TypeOK /\ RowsFit /\ HandFits /\ (faults = 0 => MemoryFollows /\ Balance)

-----------------------------------------------------------------------------
(* Constants and types. *)

LEMMA Constants ==
    /\ MaxBar \in Nat /\ MaxSeq \in Nat /\ MaxLot \in Nat /\ MaxLot > 0
    /\ NoId \notin Ids /\ NoState \notin Engine
<1>1. MaxBar \in Nat /\ MaxSeq \in Nat /\ MaxLot \in Nat /\ MaxLot > 0
  BY BoundsAssumption
<1>2. NoId \notin Ids
  BY <1>1 DEF NoId, Ids
<1>3. NoState \notin Engine
  <2>1. NoState.pos = MaxLot + 1
    BY DEF NoState
  <2>2. \A s \in Engine : s.pos \in 0 .. MaxLot
    BY DEF Engine
  <2>. QED
    BY <1>1, <2>1, <2>2
<1>. QED
  BY <1>1, <1>2, <1>3

\* One row is written.
LEMMA Rewrite ==
    ASSUME TypeOK, RowsFit, NEW id \in Ids, NEW o \in Row, orders' = [orders EXCEPT ![id] = o],
           draw' = draw, PlanFits(id, o), FillFits(o, draw[id])
    PROVE  /\ orders' \in [Ids -> Row] /\ RowsFit'
           /\ \A j \in Ids : orders'[j] = IF j = id THEN o ELSE orders[j]
<1>1. orders \in [Ids -> Row]
  BY DEF TypeOK
<1>2. orders' \in [Ids -> Row] /\ \A j \in Ids : orders'[j] = IF j = id THEN o ELSE orders[j]
  BY <1>1
<1>3. ASSUME NEW j \in Ids PROVE PlanFits(j, orders'[j]) /\ FillFits(orders'[j], draw'[j])
  <2>1. PlanFits(j, orders[j]) /\ FillFits(orders[j], draw[j])
    BY DEF RowsFit
  <2>2. orders'[j] = IF j = id THEN o ELSE orders[j]
    BY <1>2
  <2>. QED
    BY <2>1, <2>2
<1>. QED
  BY <1>2, <1>3 DEF RowsFit

-----------------------------------------------------------------------------
(* The lots. *)

LEMMA IdsFinite == IsFiniteSet(Ids)
<1>. DEFINE S == (0 .. MaxBar) \X (0 .. MaxSeq)
            f == [x \in S |-> [bar |-> x[1], seq |-> x[2]]]
<1>1. IsFiniteSet(S)
  <2>1. IsFiniteSet(0 .. MaxBar) /\ IsFiniteSet(0 .. MaxSeq)
    BY Constants, FS_Interval
  <2>. QED
    BY <2>1, FS_Product, Zenon
<1>2. f \in Surjection(S, Ids)
  <2>1. f \in [S -> Ids]
    BY DEF Ids
  <2>2. ASSUME NEW i \in Ids PROVE \E x \in S : f[x] = i
    <3>1. <<i.bar, i.seq>> \in S
      BY DEF Ids
    <3>2. f[<<i.bar, i.seq>>] = i
      BY <3>1 DEF Ids
    <3>. QED
      BY <3>1, <3>2
  <2>. QED
    BY <2>1, <2>2 DEF Surjection
<1>. QED
  <2>. HIDE DEF S, f
  <2>. QED
    BY <1>1, <1>2, FS_Surjection

LEMMA LotsFinite ==
    ASSUME NEW e
    PROVE  IsFiniteSet(Lots(e)) /\ Cardinality(Lots(e)) \in Nat
<1>1. IsFiniteSet(1 .. MaxLot)
  BY Constants, FS_Interval
<1>2. IsFiniteSet(Ids \X (1 .. MaxLot))
  BY <1>1, IdsFinite, FS_Product, Zenon
<1>3. Lots(e) \in SUBSET (Ids \X (1 .. MaxLot))
  BY DEF Lots
<1>4. IsFiniteSet(Lots(e))
  BY <1>2, <1>3, FS_Subset
<1>. QED
  BY <1>4, FS_CardinalityType

\* The lots of one application, and how many they are.
LotsOf(id, q) == {id} \X (1 .. q)

LEMMA LotsJoin ==
    ASSUME NEW e, NEW id, NEW q \in Nat, Lots(e) \cap LotsOf(id, q) = {}
    PROVE  Cardinality(Lots(e) \cup LotsOf(id, q)) = Cardinality(Lots(e)) + q
<1>1. IsFiniteSet({id}) /\ Cardinality({id}) = 1
  BY FS_Singleton
<1>2. IsFiniteSet(1 .. q) /\ Cardinality(1 .. q) = q
  BY FS_Interval
<1>3. Cardinality(LotsOf(id, q)) = 1 * q /\ IsFiniteSet(LotsOf(id, q))
  <2>1. /\ IsFiniteSet({id} \X (1 .. q))
        /\ Cardinality({id} \X (1 .. q)) = Cardinality({id}) * Cardinality(1 .. q)
    BY <1>1, <1>2, FS_Product, Zenon
  <2>. QED
    BY <1>1, <1>2, <2>1, Zenon DEF LotsOf
<1>4. Cardinality(Lots(e) \cup LotsOf(id, q))
        = Cardinality(Lots(e)) + Cardinality(LotsOf(id, q)) - Cardinality({})
  BY <1>3, LotsFinite, FS_Union
<1>. QED
  BY <1>3, <1>4, LotsFinite, FS_EmptySet

\* Nothing moves as long as the applied orders keep their fill.
LEMMA LotsStay ==
    ASSUME \A id \in Ids :
               /\ orders'[id].after = orders[id].after
               /\ Applied(id) => /\ orders'[id].fill = orders[id].fill
                                 /\ orders'[id].exit = orders[id].exit,
           NEW e
    PROVE  Lots(e)' = Lots(e)
BY DEF Lots, Applied

LEMMA BalanceStays ==
    ASSUME Balance, durable'.pos = durable.pos,
           \A id \in Ids :
               /\ orders'[id].after = orders[id].after
               /\ Applied(id) => /\ orders'[id].fill = orders[id].fill
                                 /\ orders'[id].exit = orders[id].exit
    PROVE  Balance'
<1>1. \A e : Lots(e)' = Lots(e)
  BY LotsStay
<1>2. Lots(TRUE)' = Lots(TRUE) /\ Lots(FALSE)' = Lots(FALSE)
  BY <1>1
<1>. QED
  BY <1>2 DEF Balance

\* A row that is not applied may be rewritten.
LEMMA BalanceRewritten ==
    ASSUME TypeOK, Balance, durable'.pos = durable.pos, NEW id \in Ids, NEW o \in Row,
           orders' = [orders EXCEPT ![id] = o],
           /\ o.after = orders[id].after
           /\ Applied(id) => o.fill = orders[id].fill /\ o.exit = orders[id].exit
    PROVE  Balance'
<1>1. \A j \in Ids : orders'[j] = IF j = id THEN o ELSE orders[j]
  BY DEF TypeOK
<1>. QED
  BY <1>1, BalanceStays

-----------------------------------------------------------------------------
(* The initial state. *)

LEMMA NoOrderIsRow ==
    NoOrder \in Row /\ NoOrder.fill = 0 /\ NoOrder.after = NoState /\ NoOrder.external = "none"
BY Constants DEF NoOrder, Row, Locals, Statuses

LEMMA InitPaper == Init => PaperInv
<1>. SUFFICES ASSUME Init PROVE PaperInv
  OBVIOUS
<1>1. NoOrder \in Row
  BY NoOrderIsRow
<1>2. durable \in Engine /\ mem = durable /\ durable.pos = 0
  BY Constants DEF Init, Engine, Contexts, NoContext
<1>3. Idle \in [id : Ids \cup {NoId}, step : Steps] /\ Idle.step = "none"
  BY DEF Idle, Steps
<1>4. TypeOK
  BY <1>1, <1>2, <1>3, Constants, FaultsAssumption DEF Init, TypeOK, Results
<1>5. RowsFit
  BY Constants DEF Init, RowsFit, PlanFits, FillFits, NoOrder
<1>6. HandFits
  BY <1>3 DEF Init, HandFits
<1>7. MemoryFollows
  BY <1>2 DEF MemoryFollows
<1>8. \A e : Lots(e) = {}
  BY DEF Init, Lots, Applied, NoOrder
<1>9. Balance
  <2>1. Lots(TRUE) = {} /\ Lots(FALSE) = {}
    BY <1>8
  <2>2. Cardinality(Lots(TRUE)) = 0 /\ Cardinality(Lots(FALSE)) = 0
    BY <2>1, FS_EmptySet
  <2>3. durable.pos = 0
    BY <1>2
  <2>4. 0 + 0 = 0
    OBVIOUS
  <2>. QED
    BY <2>2, <2>3, <2>4 DEF Balance
<1>. QED
  BY <1>4, <1>5, <1>6, <1>7, <1>9 DEF PaperInv

-----------------------------------------------------------------------------
(* Placing an order. *)

\* A reservation from a memory that holds the durable position.
LEMMA ReserveKeeps ==
    ASSUME PaperInv, NEW id \in Ids, NEW exit \in BOOLEAN, NEW qty, Reserve(id, exit, qty),
           mem.seq < MaxSeq, id.seq = mem.seq, up = "loop", hand = Idle,
           qty = IF exit THEN mem.pos ELSE MaxLot, ~exit => mem.pos = 0,
           bars' \in 0 .. MaxBar, UNCHANGED <<draw, crashes, faults>>
    PROVE  PaperInv'
<1>. DEFINE pre == [mem EXCEPT !.bar = IF id.bar = 0 THEN mem.bar ELSE id.bar,
                               !.context = [id |-> id, answered |-> FALSE]]
            o == Planned(NewIntent(exit, qty), pre)
<1>1. TypeOK /\ RowsFit /\ orders[id].local = "absent" /\ mem \in Engine
  BY DEF PaperInv, TypeOK, Reserve
<1>2. pre \in Engine /\ pre.pos = mem.pos
  BY <1>1 DEF Engine, Contexts, Ids
<1>3. qty \in 0 .. MaxLot
  BY <1>1, Constants DEF Engine
<1>4. /\ orders' = [orders EXCEPT ![id] = o] /\ durable' = pre /\ mem' = pre
      /\ hand' = [id |-> id, step |-> "reserved"] /\ up' = up /\ phase' = phase
  BY DEF Reserve, Take
<1>. HIDE DEF pre
<1>5. /\ o \in Row
      /\ o.local = "INTENT_CREATED" /\ o.exit = exit /\ o.req = qty /\ o.pre = pre
      /\ o.external = "none" /\ o.fill = 0 /\ o.after = NoState
  <2>. DEFINE n == NewIntent(exit, qty)
  <2>1. /\ n \in Row
        /\ n.local = "INTENT_CREATED" /\ n.exit = exit /\ n.req = qty
        /\ \A c \in {"external", "fill", "after"} : n[c] = NoOrder[c]
    BY <1>3, NoOrderIsRow DEF NewIntent, Row, Locals
  <2>. HIDE DEF n
  <2>2. o = [n EXCEPT !.pre = pre]
    BY DEF Planned, n
  <2>. QED
    BY <1>2, <2>1, <2>2, NoOrderIsRow DEF Row
<1>. HIDE DEF o
<1>6. o \in Row
  BY <1>5
<1>7. orders[id].fill = 0 /\ ~Applied(id) /\ draw[id] # "PARTIAL_TERMINAL"
  <2>1. FillFits(orders[id], draw[id]) /\ orders[id] \in Row
    BY <1>1 DEF RowsFit, TypeOK
  <2>. QED
    BY <1>1, <2>1 DEF FillFits, Row, Applied
<1>8. PlanFits(id, o) /\ FillFits(o, draw[id])
  BY <1>2, <1>3, <1>5, <1>7 DEF PlanFits, FillFits
<1>9. orders' \in [Ids -> Row] /\ RowsFit' /\ orders'[id] = o
  BY <1>1, <1>4, <1>6, <1>8, Rewrite
<1>10. TypeOK'
  BY <1>1, <1>2, <1>4, <1>9 DEF TypeOK, Steps
<1>11. HandFits'
  BY <1>4, <1>5, <1>9 DEF HandFits
<1>12. faults = 0 => MemoryFollows' /\ Balance'
  <2>. SUFFICES ASSUME faults = 0 PROVE MemoryFollows' /\ Balance'
    OBVIOUS
  <2>1. MemoryFollows /\ Balance /\ hand.step # "applied"
    BY DEF PaperInv, Idle
  <2>2. durable'.pos = durable.pos
    BY <1>2, <1>4, <2>1 DEF MemoryFollows
  <2>3. Balance'
    BY <1>1, <1>4, <1>5, <1>6, <1>7, <2>1, <2>2, BalanceRewritten DEF Applied
  <2>. QED
    BY <1>4, <2>3 DEF MemoryFollows
<1>. QED
  BY <1>9, <1>10, <1>11, <1>12 DEF PaperInv

\* Nothing changes in the journal.
LEMMA JournalStays ==
    ASSUME RowsFit, UNCHANGED <<orders, draw>>
    PROVE  RowsFit' /\ (Balance /\ durable'.pos = durable.pos => Balance')
<1>1. RowsFit'
  BY DEF RowsFit, PlanFits, FillFits
<1>. QED
  BY <1>1, BalanceStays

\* An order found terminal without effect goes back to the simulator.
LEMMA ReclaimKeeps ==
    ASSUME PaperInv, NEW id \in Ids, Reclaim(id), up = "loop", hand = Idle,
           UNCHANGED <<draw, bars, crashes, faults>>
    PROVE  PaperInv'
<1>. DEFINE o == [orders[id] EXCEPT !.status = "PENDING", !.local = "SUBMITTING"]
<1>1. TypeOK /\ RowsFit /\ orders[id] \in Row
  BY DEF PaperInv, TypeOK
<1>2. /\ orders' = [orders EXCEPT ![id] = o]
      /\ hand' = [id |-> id, step |-> "submitting"] /\ UNCHANGED <<up, phase, durable, mem>>
  BY <1>1 DEF Reclaim, Take, Row
<1>3. orders[id].local # "absent" /\ orders[id].external = "none"
  BY DEF Reclaim, Reclaimable
<1>4. PlanFits(id, orders[id]) /\ FillFits(orders[id], draw[id])
  BY <1>1 DEF RowsFit
<1>5. orders[id].fill = 0 /\ ~Applied(id)
  BY <1>1, <1>3, <1>4 DEF FillFits, Applied, Row
<1>6. /\ o \in Row
      /\ \A c \in {"exit", "req", "pre", "external", "fill", "after"} : o[c] = orders[id][c]
      /\ o.local = "SUBMITTING"
  BY <1>1 DEF Row, Locals, Statuses
<1>. HIDE DEF o
<1>7. PlanFits(id, o) /\ FillFits(o, draw[id])
  BY <1>3, <1>4, <1>5, <1>6 DEF PlanFits, FillFits, Applied
<1>8. orders' \in [Ids -> Row] /\ RowsFit' /\ orders'[id] = o
  BY <1>1, <1>2, <1>6, <1>7, Rewrite
<1>9. TypeOK'
  BY <1>1, <1>2, <1>8 DEF TypeOK, Steps
<1>10. HandFits'
  BY <1>2, <1>5, <1>6, <1>8 DEF HandFits
<1>11. faults = 0 => MemoryFollows' /\ Balance'
  <2>. SUFFICES ASSUME faults = 0 PROVE MemoryFollows' /\ Balance'
    OBVIOUS
  <2>1. MemoryFollows /\ Balance /\ hand.step # "applied"
    BY DEF PaperInv, Idle
  <2>2. Balance'
    BY <1>1, <1>2, <1>6, <2>1, BalanceRewritten
  <2>. QED
    BY <1>2, <2>1, <2>2 DEF MemoryFollows
<1>. QED
  BY <1>8, <1>9, <1>10, <1>11 DEF PaperInv

\* A stop loses the memory and the order in hand.
LEMMA StopKeeps ==
    ASSUME PaperInv, Stop, UNCHANGED <<orders, draw, durable, bars, faults>>,
           crashes' \in 0 .. MaxCrash
    PROVE  PaperInv'
<1>1. RowsFit' /\ (Balance => Balance')
  BY JournalStays DEF PaperInv
<1>2. hand' = Idle /\ up' = "down" /\ mem' = durable /\ phase' = "risk"
  BY DEF Stop
<1>3. Idle \in [id : Ids \cup {NoId}, step : Steps] /\ Idle.step = "none"
  BY DEF Idle, Steps
<1>4. TypeOK' /\ HandFits' /\ MemoryFollows'
  BY <1>2, <1>3 DEF PaperInv, TypeOK, HandFits, MemoryFollows
<1>. QED
  BY <1>1, <1>4 DEF PaperInv

LEMMA RefuseKeeps ==
    ASSUME PaperInv, NEW id, RefuseSubmission(id), UNCHANGED draw, Frame
    PROVE  PaperInv'
<1>1. Stop /\ UNCHANGED <<orders, draw, durable, bars, faults>> /\ crashes' = crashes
  BY DEF RefuseSubmission, Frame
<1>2. crashes' \in 0 .. MaxCrash
  BY <1>1 DEF PaperInv, TypeOK
<1>. QED
  BY <1>1, <1>2, StopKeeps

LEMMA CyclePaper == PaperInv /\ Cycle => PaperInv'
<1>. SUFFICES ASSUME PaperInv, Cycle PROVE PaperInv'
  OBVIOUS
<1>1. TypeOK /\ RowsFit /\ HandFits /\ mem \in Engine /\ durable \in Engine /\ up = "loop" /\ hand = Idle
  BY DEF PaperInv, TypeOK, Cycle, UpdateRisk, SoftStop, NoStop, CloseBar, NoBar, SaveState, Turn
<1>2. hand.step = "none"
  BY <1>1 DEF Idle
<1>3. CASE UpdateRisk
  <2>1. PICK r \in mem.risk .. 1 : mem' = [mem EXCEPT !.risk = r]
    BY <1>3 DEF UpdateRisk
  <2>2. mem' \in Engine /\ mem'.pos = mem.pos
    BY <1>1, <2>1 DEF Engine
  <2>3. UNCHANGED <<orders, draw, durable, hand, up, bars, crashes, faults>> /\ phase' = "stops"
    BY <1>3 DEF UpdateRisk, Move, Frame
  <2>4. RowsFit' /\ (Balance => Balance')
    BY <1>1, <2>3, JournalStays
  <2>5. TypeOK' /\ HandFits' /\ (MemoryFollows => MemoryFollows')
    BY <1>1, <1>2, <2>2, <2>3 DEF TypeOK, HandFits, MemoryFollows
  <2>. QED
    BY <2>3, <2>4, <2>5 DEF PaperInv
<1>4. CASE SoftStop
  <2>. DEFINE id == [bar |-> 0, seq |-> mem.seq]
  <2>1. mem.seq < MaxSeq /\ id \in Ids /\ id.seq = mem.seq
    BY <1>1, <1>4, Constants DEF SoftStop, Ids, Engine
  <2>2. UNCHANGED <<draw, bars, crashes, faults>> /\ bars' \in 0 .. MaxBar
    BY <1>1, <1>4 DEF SoftStop, Frame, TypeOK
  <2>3. Reserve(id, TRUE, mem.pos) \/ Reclaim(id) \/ RefuseSubmission(id)
    BY <1>4 DEF SoftStop
  <2>. HIDE DEF id
  <2>4. CASE Reserve(id, TRUE, mem.pos)
    BY <1>1, <2>1, <2>2, <2>4, ReserveKeeps
  <2>5. CASE Reclaim(id)
    BY <1>1, <2>1, <2>2, <2>5, ReclaimKeeps
  <2>6. CASE RefuseSubmission(id)
    BY <2>2, <2>6, RefuseKeeps DEF Frame
  <2>. QED
    BY <2>3, <2>4, <2>5, <2>6
<1>5. CASE NoStop \/ NoBar
  <2>1. UNCHANGED <<orders, draw, durable, mem, hand, up, bars, crashes, faults>>
        /\ phase' \in {"bars", "save"}
    BY <1>5 DEF NoStop, NoBar, Move, Frame
  <2>2. RowsFit' /\ (Balance => Balance')
    BY <1>1, <2>1, JournalStays
  <2>3. TypeOK' /\ HandFits' /\ (MemoryFollows => MemoryFollows')
    BY <1>1, <1>2, <2>1 DEF TypeOK, HandFits, MemoryFollows
  <2>. QED
    BY <2>1, <2>2, <2>3 DEF PaperInv
<1>6. CASE CloseBar
  <2>. DEFINE id == [bar |-> bars + 1, seq |-> mem.seq]
              exit == mem.pos > 0
              qty == IF mem.pos > 0 THEN mem.pos ELSE MaxLot
  <2>1. mem.seq < MaxSeq /\ id \in Ids /\ id.seq = mem.seq /\ bars' \in 0 .. MaxBar
    BY <1>1, <1>6, Constants DEF CloseBar, Ids, Engine, TypeOK
  <2>2. /\ exit \in BOOLEAN /\ qty = (IF exit THEN mem.pos ELSE MaxLot)
        /\ ~exit => mem.pos = 0
    BY <1>1, Constants DEF Engine
  <2>3. Reserve(id, exit, qty) /\ UNCHANGED <<draw, crashes, faults>>
    BY <1>6 DEF CloseBar
  <2>. HIDE DEF id, exit, qty
  <2>. QED
    BY <1>1, <2>1, <2>2, <2>3, ReserveKeeps
<1>7. CASE SaveState
  <2>1. /\ UNCHANGED <<orders, draw, mem, hand, up, bars, crashes, faults>>
        /\ phase' = "risk" /\ durable' = mem
    BY <1>7 DEF SaveState, Move, Frame
  <2>2. RowsFit' /\ (Balance /\ MemoryFollows => Balance')
    BY <1>1, <1>2, <2>1, JournalStays DEF MemoryFollows
  <2>3. TypeOK' /\ HandFits' /\ MemoryFollows'
    BY <1>1, <1>2, <2>1 DEF TypeOK, HandFits, MemoryFollows
  <2>. QED
    BY <2>1, <2>2, <2>3 DEF PaperInv
<1>. QED
  BY <1>3, <1>4, <1>5, <1>6, <1>7 DEF Cycle

-----------------------------------------------------------------------------
(* The order in hand. *)

Phases == {"risk", "stops", "bars", "save"}
Hands == [id : Ids \cup {NoId}, step : Steps]

\* A row is rewritten without moving a position.
LEMMA RowMoves ==
    ASSUME PaperInv, NEW id \in Ids, NEW o \in Row, orders' = [orders EXCEPT ![id] = o],
           UNCHANGED <<draw, mem, bars, crashes, faults>>,
           PlanFits(id, o), FillFits(o, draw[id]), o.after = orders[id].after,
           Applied(id) => o.fill = orders[id].fill /\ o.exit = orders[id].exit,
           durable' \in Engine, durable'.pos = durable.pos,
           up' = up, phase' \in Phases, hand' \in Hands, hand.step # "applied",
           orders'[id] = o => HandFits'
    PROVE  PaperInv'
<1>1. TypeOK /\ RowsFit
  BY DEF PaperInv
<1>2. orders' \in [Ids -> Row] /\ RowsFit' /\ orders'[id] = o
  BY <1>1, Rewrite
<1>3. TypeOK'
  BY <1>1, <1>2 DEF TypeOK, Phases, Hands
<1>4. faults = 0 => MemoryFollows' /\ Balance'
  <2>. SUFFICES ASSUME faults = 0 PROVE MemoryFollows' /\ Balance'
    OBVIOUS
  <2>1. MemoryFollows /\ Balance
    BY DEF PaperInv
  <2>2. Balance'
    BY <1>1, <2>1, BalanceRewritten
  <2>. QED
    BY <2>1, <2>2 DEF MemoryFollows
<1>. QED
  BY <1>2, <1>3, <1>4 DEF PaperInv

\* What is known of the order in hand.
LEMMA InHand ==
    ASSUME PaperInv, hand.step # "none"
    PROVE  /\ hand.id \in Ids /\ orders[hand.id] \in Row
           /\ PlanFits(hand.id, orders[hand.id]) /\ FillFits(orders[hand.id], draw[hand.id])
           /\ orders[hand.id].local # "absent"
           /\ hand.step \in {"reserved", "submitting", "answered", "observed"} => orders[hand.id].fill = 0
           /\ hand.step = "answered" => draw[hand.id] # "none"
           /\ hand.step = "observed" => /\ orders[hand.id].local = "PENDING_RECONCILIATION"
                                        /\ orders[hand.id].external # "none"
<1>1. HandFits
  BY DEF PaperInv
<1>2. hand.id \in Ids /\ orders[hand.id].local # "absent"
  BY <1>1 DEF HandFits
<1>3. PlanFits(hand.id, orders[hand.id]) /\ FillFits(orders[hand.id], draw[hand.id])
  BY <1>2 DEF PaperInv, RowsFit
<1>4. orders[hand.id] \in Row
  BY <1>2 DEF PaperInv, TypeOK
<1>. QED
  BY <1>1, <1>2, <1>3, <1>4 DEF HandFits

LEMMA MarkSubmittingKeeps == PaperInv /\ MarkSubmitting => PaperInv'
<1>. SUFFICES ASSUME PaperInv, MarkSubmitting PROVE PaperInv'
  OBVIOUS
<1>. DEFINE o == [orders[hand.id] EXCEPT !.local = "SUBMITTING"]
<1>1. hand.step = "reserved" /\ up = "loop"
  BY DEF MarkSubmitting, Holding
<1>2. /\ hand.id \in Ids /\ orders[hand.id] \in Row /\ orders[hand.id].fill = 0
      /\ PlanFits(hand.id, orders[hand.id]) /\ FillFits(orders[hand.id], draw[hand.id])
      /\ orders[hand.id].local # "absent"
  BY <1>1, InHand
<1>3. /\ orders' = [orders EXCEPT ![hand.id] = o]
      /\ UNCHANGED <<draw, mem, bars, crashes, faults, durable, up, phase>>
      /\ hand' = [id |-> hand.id, step |-> "submitting"]
  BY DEF MarkSubmitting, Take, Frame
<1>4. /\ o \in Row /\ o.local = "SUBMITTING"
      /\ \A c \in {"exit", "req", "pre", "external", "fill", "after"} : o[c] = orders[hand.id][c]
  BY <1>2 DEF Row, Locals
<1>. HIDE DEF o
<1>5. PlanFits(hand.id, o) /\ FillFits(o, draw[hand.id])
  BY <1>2, <1>4 DEF PlanFits, FillFits
<1>6. orders'[hand.id] = o => HandFits'
  BY <1>1, <1>2, <1>3, <1>4 DEF HandFits
<1>7. hand' \in Hands /\ phase' \in Phases /\ durable' \in Engine
  BY <1>2, <1>3 DEF Hands, Steps, Phases, PaperInv, TypeOK
<1>. QED
  BY <1>1, <1>2, <1>3, <1>4, <1>5, <1>6, <1>7, RowMoves

LEMMA ExecuteFailsKeeps == PaperInv /\ ExecuteFails => PaperInv'
<1>. SUFFICES ASSUME PaperInv, ExecuteFails PROVE PaperInv'
  OBVIOUS
<1>. DEFINE o == [orders[hand.id] EXCEPT !.status = "FAILED", !.local = "TERMINAL"]
<1>1. hand.step = "submitting" /\ up = "loop"
  BY DEF ExecuteFails, Holding
<1>2. /\ hand.id \in Ids /\ orders[hand.id] \in Row /\ orders[hand.id].fill = 0
      /\ PlanFits(hand.id, orders[hand.id]) /\ FillFits(orders[hand.id], draw[hand.id])
      /\ orders[hand.id].local # "absent"
  BY <1>1, InHand
<1>3. /\ UNCHANGED <<draw, mem, bars, crashes, faults, durable, up>> /\ phase' = "risk"
      /\ hand' = Idle
  BY DEF ExecuteFails, NextCycle, Frame
<1>4. /\ orders' = [orders EXCEPT ![hand.id] = o]
      /\ o \in Row /\ o.local = "TERMINAL"
      /\ \A c \in {"exit", "req", "pre", "external", "fill", "after"} : o[c] = orders[hand.id][c]
  <2>1. orders \in [Ids -> Row]
    BY DEF PaperInv, TypeOK
  <2>. QED
    BY <1>2, <2>1 DEF ExecuteFails, Row, Locals, Statuses
<1>. HIDE DEF o
<1>5. PlanFits(hand.id, o) /\ FillFits(o, draw[hand.id])
  BY <1>2, <1>4 DEF PlanFits, FillFits
<1>6. orders'[hand.id] = o => HandFits'
  BY <1>3 DEF HandFits, Idle
<1>7. hand' \in Hands /\ phase' \in Phases /\ durable' \in Engine
  BY <1>3 DEF Hands, Steps, Phases, PaperInv, TypeOK, Idle
<1>. QED
  BY <1>1, <1>2, <1>3, <1>4, <1>5, <1>6, <1>7, RowMoves

LEMMA ExecuteKeeps == PaperInv /\ Execute => PaperInv'
<1>. SUFFICES ASSUME PaperInv, Execute PROVE PaperInv'
  OBVIOUS
<1>1. hand.step = "submitting" /\ up = "loop" /\ TypeOK /\ RowsFit
  BY DEF Execute, Holding, PaperInv
<1>2. /\ hand.id \in Ids /\ orders[hand.id].fill = 0 /\ orders[hand.id].local # "absent"
  BY <1>1, InHand
<1>3. /\ UNCHANGED <<orders, durable, mem, bars, crashes, faults, up, phase>>
      /\ hand' = [id |-> hand.id, step |-> "answered"]
  BY DEF Execute, Take, Frame
<1>4. PICK r \in Results : /\ r = "PARTIAL_TERMINAL" => orders[hand.id].req > 1
                           /\ draw' = [draw EXCEPT ![hand.id] = r]
  BY DEF Execute
<1>5. /\ draw' \in [Ids -> Results \cup {"none"}] /\ draw'[hand.id] = r
      /\ \A j \in Ids : draw'[j] = IF j = hand.id THEN r ELSE draw[j]
  BY <1>1, <1>2, <1>4 DEF TypeOK
<1>6. RowsFit'
  <2>1. ASSUME NEW j \in Ids PROVE PlanFits(j, orders'[j]) /\ FillFits(orders'[j], draw'[j])
    <3>1. PlanFits(j, orders[j]) /\ FillFits(orders[j], draw[j]) /\ orders'[j] = orders[j]
      BY <1>1, <1>3 DEF RowsFit
    <3>2. draw'[j] = IF j = hand.id THEN r ELSE draw[j]
      BY <1>5
    <3>3. FillFits(orders[j], draw'[j])
      BY <1>2, <1>4, <3>1, <3>2 DEF FillFits
    <3>. QED
      BY <3>1, <3>3
  <2>. QED
    BY <2>1 DEF RowsFit
<1>7. TypeOK'
  BY <1>1, <1>2, <1>3, <1>5 DEF TypeOK, Steps
<1>8. HandFits'
  BY <1>1, <1>2, <1>3, <1>5 DEF HandFits, Results
<1>9. Balance => Balance'
  BY <1>3, BalanceStays
<1>. QED
  BY <1>1, <1>3, <1>6, <1>7, <1>8, <1>9 DEF PaperInv, MemoryFollows

LEMMA ObserveKeeps == PaperInv /\ Observe => PaperInv'
<1>. SUFFICES ASSUME PaperInv, Observe PROVE PaperInv'
  OBVIOUS
<1>. DEFINE o == [orders[hand.id] EXCEPT !.local = "PENDING_RECONCILIATION",
                                        !.external = draw[hand.id]]
<1>1. hand.step = "answered" /\ up = "loop" /\ TypeOK /\ RowsFit
  BY DEF Observe, Holding, PaperInv
<1>2. /\ hand.id \in Ids /\ orders[hand.id] \in Row /\ orders[hand.id].fill = 0
      /\ PlanFits(hand.id, orders[hand.id]) /\ FillFits(orders[hand.id], draw[hand.id])
      /\ orders[hand.id].local # "absent" /\ draw[hand.id] # "none"
  BY <1>1, InHand
<1>3. /\ UNCHANGED <<draw, durable, bars, crashes, faults, up, phase>>
      /\ mem' = [mem EXCEPT !.context.answered = TRUE]
      /\ hand' = [id |-> hand.id, step |-> "observed"]
  BY DEF Observe, Take, Frame
<1>4. /\ orders' = [orders EXCEPT ![hand.id] = o]
      /\ o \in Row /\ o.local = "PENDING_RECONCILIATION" /\ o.external = draw[hand.id]
      /\ \A c \in {"exit", "req", "pre", "fill", "after"} : o[c] = orders[hand.id][c]
  <2>1. orders \in [Ids -> Row] /\ draw[hand.id] \in Results \cup {"none"}
    BY <1>1, <1>2 DEF TypeOK
  <2>. QED
    BY <1>2, <2>1 DEF Observe, Row, Locals
<1>. HIDE DEF o
<1>5. PlanFits(hand.id, o) /\ FillFits(o, draw[hand.id])
  BY <1>2, <1>4 DEF PlanFits, FillFits
<1>6. mem' \in Engine /\ mem'.pos = mem.pos
  <2>1. mem \in Engine /\ mem.context \in Contexts
    BY <1>1 DEF TypeOK, Engine
  <2>2. [mem.context EXCEPT !.answered = TRUE] \in Contexts
    BY <2>1 DEF Contexts
  <2>3. mem' = [mem EXCEPT !.context = [mem.context EXCEPT !.answered = TRUE]]
    BY <1>3, <2>1 DEF Engine
  <2>. QED
    BY <2>1, <2>2, <2>3 DEF Engine
<1>7. orders' \in [Ids -> Row] /\ RowsFit' /\ orders'[hand.id] = o
  BY <1>1, <1>2, <1>3, <1>4, <1>5, Rewrite
<1>8. TypeOK'
  BY <1>1, <1>2, <1>3, <1>6, <1>7 DEF TypeOK, Steps
<1>9. HandFits'
  BY <1>1, <1>2, <1>3, <1>4, <1>7 DEF HandFits
<1>10. Balance => Balance'
  BY <1>1, <1>2, <1>3, <1>4, BalanceRewritten
<1>. QED
  BY <1>1, <1>3, <1>6, <1>7, <1>8, <1>9, <1>10 DEF PaperInv, MemoryFollows

LEMMA PersistEvidenceKeeps == PaperInv /\ PersistEvidence => PaperInv'
<1>. SUFFICES ASSUME PaperInv, PersistEvidence PROVE PaperInv'
  OBVIOUS
<1>. DEFINE q == Filled(hand.id)
            o == [orders[hand.id] EXCEPT !.fill = q]
<1>1. hand.step = "observed" /\ up = "loop"
  BY DEF PersistEvidence, Holding
<1>2. /\ hand.id \in Ids /\ orders[hand.id] \in Row /\ orders[hand.id].fill = 0
      /\ PlanFits(hand.id, orders[hand.id]) /\ FillFits(orders[hand.id], draw[hand.id])
      /\ orders[hand.id].local = "PENDING_RECONCILIATION" /\ orders[hand.id].external # "none"
  BY <1>1, InHand
<1>3. /\ orders' = [orders EXCEPT ![hand.id] = o]
      /\ UNCHANGED <<draw, mem, bars, crashes, faults, durable, up, phase>>
      /\ \E s \in {"persisted", "finalized"} : hand' = [id |-> hand.id, step |-> s]
  BY DEF PersistEvidence, Take, Frame
<1>4. q \in 0 .. orders[hand.id].req
  <2>1. orders[hand.id].req \in Nat
    BY <1>2, Constants DEF Row
  <2>2. draw[hand.id] = "PARTIAL_TERMINAL" => orders[hand.id].req > 1
    BY <1>2 DEF FillFits
  <2>. QED
    BY <2>1, <2>2 DEF Filled
<1>. HIDE DEF q
<1>5. orders[hand.id].after = NoState
  BY <1>2 DEF FillFits, Row
<1>6. /\ o \in Row /\ o.fill = q
      /\ \A c \in {"local", "exit", "req", "pre", "external", "after"} : o[c] = orders[hand.id][c]
  BY <1>2, <1>4, Constants DEF Row
<1>. HIDE DEF o
<1>7. PlanFits(hand.id, o)
  BY <1>2, <1>6 DEF PlanFits
<1>8. FillFits(o, draw[hand.id])
  BY <1>2, <1>4, <1>5, <1>6 DEF FillFits
<1>9. orders'[hand.id] = o => HandFits'
  BY <1>1, <1>2, <1>3, <1>6 DEF HandFits
<1>10. hand' \in Hands /\ phase' \in Phases /\ durable' \in Engine
  BY <1>2, <1>3 DEF Hands, Steps, Phases, PaperInv, TypeOK
<1>. QED
  BY <1>1, <1>2, <1>3, <1>5, <1>6, <1>7, <1>8, <1>9, <1>10, RowMoves DEF Applied

-----------------------------------------------------------------------------
(* Applying and finalising. *)

\* The application moves the position by the lots it adds, and stays in bounds
\* because the plan took the position it was made from.
LEMMA ApplyKeeps ==
    ASSUME TypeOK, RowsFit, NEW id \in Ids, ApplyFill(id), draw' = draw
    PROVE  /\ orders' \in [Ids -> Row] /\ RowsFit' /\ durable' \in Engine
           /\ Balance => Balance'
           /\ orders'[id].local = orders[id].local
<1>. DEFINE after == Effect(id, durable)
            o == [orders[id] EXCEPT !.after = after]
            q == orders[id].fill
<1>1. /\ orders[id] \in Row /\ PlanFits(id, orders[id]) /\ FillFits(orders[id], draw[id])
      /\ durable \in Engine
  BY DEF TypeOK, RowsFit
<1>2. /\ q > 0 /\ orders[id].local = "PENDING_RECONCILIATION" /\ ~Applied(id)
      /\ durable = orders[id].pre
      /\ orders' = [orders EXCEPT ![id] = o] /\ durable' = after
  BY DEF ApplyFill, CanApply
<1>3. q \in 1 .. MaxLot /\ q <= orders[id].req /\ orders[id].exit \in BOOLEAN
  BY <1>1, <1>2, Constants DEF Row, FillFits
<1>4. /\ orders[id].exit => q <= durable.pos
      /\ ~orders[id].exit => durable.pos = 0
      /\ durable.pos \in 0 .. MaxLot
  <2>1. /\ orders[id].exit => orders[id].req = durable.pos
        /\ ~orders[id].exit => durable.pos = 0
    BY <1>1, <1>2 DEF PlanFits
  <2>. QED
    BY <1>1, <1>3, <2>1 DEF Engine
<1>5. /\ after \in Engine
      /\ orders[id].exit => after.pos = durable.pos - q
      /\ ~orders[id].exit => after.pos = durable.pos + q
  BY <1>1, <1>3, <1>4, Constants DEF Effect, Engine
<1>. HIDE DEF after
<1>6. /\ o \in Row /\ o.after = after
      /\ \A c \in {"local", "exit", "req", "pre", "external", "fill"} : o[c] = orders[id][c]
  BY <1>1, <1>5 DEF Row
<1>7. after # NoState
  BY <1>5, Constants
<1>. HIDE DEF o
<1>8. PlanFits(id, o) /\ FillFits(o, draw[id])
  BY <1>1, <1>2, <1>6 DEF PlanFits, FillFits
<1>9. /\ orders' \in [Ids -> Row] /\ RowsFit'
      /\ \A j \in Ids : orders'[j] = IF j = id THEN o ELSE orders[j]
  BY <1>2, <1>6, <1>8, Rewrite
<1>10. ASSUME NEW e \in BOOLEAN
       PROVE  /\ orders[id].exit = e => Lots(e)' = Lots(e) \cup LotsOf(id, q)
              /\ orders[id].exit # e => Lots(e)' = Lots(e)
              /\ Lots(e) \cap LotsOf(id, q) = {}
  <2>1. \A u \in Ids \X (1 .. MaxLot) :
           /\ u[1] # id => (u \in Lots(e)' <=> u \in Lots(e))
           /\ u[1] = id => (u \in Lots(e)' <=> orders[id].exit = e /\ u[2] <= q)
           /\ u[1] = id => u \notin Lots(e)
    BY <1>2, <1>6, <1>7, <1>9 DEF Lots, Applied
  <2>2. Lots(e)' \subseteq Ids \X (1 .. MaxLot) /\ Lots(e) \subseteq Ids \X (1 .. MaxLot)
    BY DEF Lots
  <2>3. LotsOf(id, q) = {u \in Ids \X (1 .. MaxLot) : u[1] = id /\ u[2] <= q}
    BY <1>3, Constants DEF LotsOf
  <2>. QED
    BY <2>1, <2>2, <2>3
<1>11. ASSUME Balance PROVE Balance'
  <2>. DEFINE x == Cardinality(Lots(TRUE))
              y == Cardinality(Lots(FALSE))
  <2>1. x \in Nat /\ y \in Nat
    BY LotsFinite
  <2>2. durable.pos + x = y
    BY <1>11 DEF Balance
  <2>3. CASE orders[id].exit
    <3>1. Lots(TRUE)' = Lots(TRUE) \cup LotsOf(id, q) /\ Lots(FALSE)' = Lots(FALSE)
      BY <1>3, <1>10, <2>3
    <3>2. Cardinality(Lots(TRUE)') = x + q
      <4>0. q \in Nat
        BY <1>3
      <4>. HIDE DEF q
      <4>1. TRUE \in BOOLEAN
        OBVIOUS
      <4>2. Lots(TRUE) \cap LotsOf(id, q) = {}
        BY <1>10, <4>1
      <4>3. Cardinality(Lots(TRUE) \cup LotsOf(id, q)) = Cardinality(Lots(TRUE)) + q
        BY <4>0, <4>2, LotsJoin
      <4>. QED
        BY <3>1, <4>3
    <3>3. durable'.pos = durable.pos - q
      BY <1>2, <1>5, <2>3
    <3>. HIDE DEF x, y
    <3>4. durable'.pos + (x + q) = y
      BY <1>3, <1>4, <2>1, <2>2, <3>3
    <3>. QED
      BY <3>1, <3>2, <3>4 DEF Balance, y
  <2>4. CASE ~orders[id].exit
    <3>1. Lots(FALSE)' = Lots(FALSE) \cup LotsOf(id, q) /\ Lots(TRUE)' = Lots(TRUE)
      BY <1>3, <1>10, <2>4
    <3>2. Cardinality(Lots(FALSE)') = y + q
      <4>0. q \in Nat
        BY <1>3
      <4>. HIDE DEF q
      <4>1. FALSE \in BOOLEAN
        OBVIOUS
      <4>2. Lots(FALSE) \cap LotsOf(id, q) = {}
        BY <1>10, <4>1
      <4>3. Cardinality(Lots(FALSE) \cup LotsOf(id, q)) = Cardinality(Lots(FALSE)) + q
        BY <4>0, <4>2, LotsJoin
      <4>. QED
        BY <3>1, <4>3
    <3>3. durable'.pos = durable.pos + q
      BY <1>2, <1>5, <2>4
    <3>. HIDE DEF x, y
    <3>4. durable'.pos + x = y + q
      BY <1>3, <1>4, <2>1, <2>2, <3>3
    <3>. QED
      BY <3>1, <3>2, <3>4 DEF Balance, x
  <2>. QED
    BY <2>3, <2>4
<1>. QED
  BY <1>2, <1>5, <1>6, <1>9, <1>11

LEMMA FinalizeKeeps ==
    ASSUME TypeOK, RowsFit, NEW id \in Ids, FinalizeOrder(id), draw' = draw
    PROVE  /\ orders' \in [Ids -> Row] /\ RowsFit' /\ durable' \in Engine
           /\ Balance => Balance'
           /\ durable'.pos = durable.pos
           /\ orders'[id].local = "TERMINAL"
<1>. DEFINE s == IF orders[id].external = "FILLED" THEN "FILLED" ELSE "PARTIAL"
            o == [orders[id] EXCEPT !.local = "TERMINAL", !.status = s]
<1>1. /\ orders[id] \in Row /\ PlanFits(id, orders[id]) /\ FillFits(orders[id], draw[id])
      /\ durable \in Engine
  BY DEF TypeOK, RowsFit
<1>2. /\ orders[id].local = "PENDING_RECONCILIATION"
      /\ durable' = [durable EXCEPT !.seq = id.seq + 1]
  BY DEF FinalizeOrder, CanFinalize
<1>3. durable' \in Engine /\ durable'.pos = durable.pos
  <2>1. id.seq < MaxSeq /\ id.seq \in Nat
    BY <1>1, <1>2 DEF PlanFits, Ids
  <2>. QED
    BY <1>1, <1>2, <2>1, Constants DEF Engine
<1>4. /\ orders' = [orders EXCEPT ![id] = o]
      /\ o \in Row /\ o.local = "TERMINAL"
      /\ \A c \in {"exit", "req", "pre", "external", "fill", "after"} : o[c] = orders[id][c]
  <2>1. orders \in [Ids -> Row] /\ s \in Statuses
    BY DEF TypeOK, Statuses
  <2>2. orders' = [orders EXCEPT ![id].local = "TERMINAL", ![id].status = s]
    BY DEF FinalizeOrder
  <2>. HIDE DEF s
  <2>. QED
    BY <1>1, <2>1, <2>2 DEF Row, Locals
<1>. HIDE DEF o
<1>5. PlanFits(id, o) /\ FillFits(o, draw[id])
  BY <1>1, <1>2, <1>4 DEF PlanFits, FillFits
<1>6. orders' \in [Ids -> Row] /\ RowsFit' /\ orders'[id] = o
  BY <1>4, <1>5, Rewrite
<1>7. Balance => Balance'
  BY <1>3, <1>4, BalanceRewritten
<1>. QED
  BY <1>3, <1>4, <1>6, <1>7

LEMMA AppliesPaper == PaperInv /\ (Apply \/ Finalize) => PaperInv'
<1>. SUFFICES ASSUME PaperInv, Apply \/ Finalize PROVE PaperInv'
  OBVIOUS
<1>1. TypeOK /\ RowsFit /\ up = "loop" /\ hand.step # "none" /\ hand.id \in Ids
  BY InHand DEF PaperInv, Apply, Finalize, Holding
<1>2. UNCHANGED <<draw, mem, up, phase, bars, crashes, faults>>
  BY DEF Apply, Finalize, Take, Frame
<1>3. CASE Apply
  <2>1. ApplyFill(hand.id) /\ hand' = [id |-> hand.id, step |-> "applied"]
    BY <1>3 DEF Apply, Take
  <2>2. /\ orders' \in [Ids -> Row] /\ RowsFit' /\ durable' \in Engine /\ (Balance => Balance')
        /\ orders'[hand.id].local = orders[hand.id].local
    BY <1>1, <1>2, <2>1, ApplyKeeps
  <2>3. orders[hand.id].local # "absent"
    BY <1>1, InHand
  <2>4. TypeOK' /\ HandFits' /\ MemoryFollows'
    BY <1>1, <1>2, <2>1, <2>2, <2>3 DEF TypeOK, HandFits, MemoryFollows, Steps
  <2>. QED
    BY <1>2, <2>2, <2>4 DEF PaperInv
<1>4. CASE Finalize
  <2>1. FinalizeOrder(hand.id) /\ hand' = [id |-> hand.id, step |-> "closed"] /\ hand.step = "reloaded"
    BY <1>4 DEF Finalize, Take, Holding
  <2>2. /\ orders' \in [Ids -> Row] /\ RowsFit' /\ durable' \in Engine /\ (Balance => Balance')
        /\ orders'[hand.id].local = "TERMINAL" /\ durable'.pos = durable.pos
    BY <1>1, <1>2, <2>1, FinalizeKeeps
  <2>3. TypeOK' /\ HandFits' /\ (MemoryFollows => MemoryFollows')
    BY <1>1, <1>2, <2>1, <2>2 DEF TypeOK, HandFits, MemoryFollows, Steps
  <2>. QED
    BY <1>2, <2>2, <2>3 DEF PaperInv
<1>. QED
  BY <1>3, <1>4

\* The durable row replaces the memory, or the timeline joins both.
LEMMA ReloadsPaper == PaperInv /\ (ReloadApplied \/ ReloadFinalized) => PaperInv'
<1>. SUFFICES ASSUME PaperInv, ReloadApplied \/ ReloadFinalized PROVE PaperInv'
  OBVIOUS
<1>1. /\ UNCHANGED <<orders, draw, durable, up, phase, bars, crashes, faults>> /\ mem' = durable
      /\ \E s \in {"reloaded", "finalized"} : hand' = [id |-> hand.id, step |-> s]
      /\ hand.step # "none"
  BY DEF ReloadApplied, ReloadFinalized, LoadState, Take, Frame, Holding
<1>2. RowsFit' /\ (Balance => Balance')
  BY <1>1, JournalStays DEF PaperInv
<1>3. hand.id \in Ids /\ orders[hand.id].local # "absent" /\ up = "loop"
  BY <1>1 DEF PaperInv, HandFits
<1>4. TypeOK' /\ HandFits' /\ MemoryFollows'
  BY <1>1, <1>3 DEF PaperInv, TypeOK, HandFits, MemoryFollows, Steps
<1>. QED
  BY <1>1, <1>2, <1>4 DEF PaperInv

LEMMA RecordsPaper == PaperInv /\ RecordTransition => PaperInv'
<1>. SUFFICES ASSUME PaperInv, RecordTransition PROVE PaperInv'
  OBVIOUS
<1>1. /\ UNCHANGED <<orders, draw, up, phase, bars, crashes, faults>> /\ hand' = Idle
      /\ hand.step = "finalized" /\ up = "loop"
      /\ mem' = [mem EXCEPT !.marks = @ \cup {hand.id}] /\ durable' = mem'
  BY DEF RecordTransition, Release, Frame, Holding
<1>2. mem' \in Engine /\ mem'.pos = mem.pos
  <2>1. hand.id \in Ids /\ mem \in Engine
    BY <1>1 DEF PaperInv, HandFits, TypeOK
  <2>. QED
    BY <1>1, <2>1 DEF Engine
<1>3. RowsFit' /\ (Balance /\ MemoryFollows => Balance')
  BY <1>1, <1>2, JournalStays DEF PaperInv, MemoryFollows
<1>4. TypeOK' /\ HandFits' /\ MemoryFollows'
  BY <1>1, <1>2 DEF PaperInv, TypeOK, HandFits, MemoryFollows, Idle, Steps
<1>. QED
  BY <1>1, <1>3, <1>4 DEF PaperInv

-----------------------------------------------------------------------------
(* Errors, crashes and recovery. *)

LEMMA FaultsPaper == PaperInv /\ (ReconcileFails \/ Crash) => PaperInv'
<1>. SUFFICES ASSUME PaperInv, ReconcileFails \/ Crash PROVE PaperInv'
  OBVIOUS
<1>1. TypeOK /\ RowsFit
  BY DEF PaperInv
<1>2. CASE ReconcileFails
  <2>1. /\ UNCHANGED <<orders, draw, durable, mem, up, bars, crashes>> /\ phase' = "risk" /\ hand' = Idle
        /\ faults' = faults + 1 /\ faults < MaxFault
    BY <1>2 DEF ReconcileFails, NextCycle
  <2>2. faults \in Nat /\ faults' \in 0 .. MaxFault /\ faults' # 0
    BY <1>1, <2>1, FaultsAssumption DEF TypeOK
  <2>3. RowsFit'
    BY <1>1, <2>1, JournalStays
  <2>4. TypeOK' /\ HandFits'
    BY <1>1, <2>1, <2>2 DEF TypeOK, HandFits, Idle, Steps
  <2>. QED
    BY <2>2, <2>3, <2>4 DEF PaperInv
<1>3. CASE Crash
  <2>1. Stop /\ UNCHANGED <<orders, draw, durable, bars, faults>>
    BY <1>3 DEF Crash
  <2>2. crashes' \in 0 .. MaxCrash
    BY <1>1, <1>3, FaultsAssumption DEF Crash, TypeOK
  <2>. QED
    BY <2>1, <2>2, StopKeeps
<1>. QED
  BY <1>2, <1>3

\* Nothing is in hand outside the loop.
LEMMA NoHand == ASSUME PaperInv, up # "loop" PROVE hand.step = "none"
BY DEF PaperInv, HandFits

\* The recovery of one order, in a journal row at a time.
LEMMA RecoversOrder ==
    ASSUME PaperInv, NEW id \in Ids,
           \/ RecoverUnsubmitted(id) \/ RecoverAbort(id)
           \/ RecoverApply(id) \/ RecoverFinalize(id) \/ RecoverManual(id)
    PROVE  PaperInv'
<1>1. /\ TypeOK /\ RowsFit /\ up = "recovering" /\ hand.step = "none"
      /\ orders[id].local \notin {"absent", "TERMINAL"}
      /\ UNCHANGED <<draw, mem, phase, hand, bars, crashes, faults>>
  BY NoHand DEF PaperInv, RecoverUnsubmitted, RecoverAbort, RecoverApply, RecoverFinalize, RecoverManual,
     Recovering, Unresolved, Frame
<1>2. orders[id] \in Row /\ PlanFits(id, orders[id]) /\ FillFits(orders[id], draw[id]) /\ durable \in Engine
  BY <1>1 DEF TypeOK, RowsFit
<1>3. CASE RecoverUnsubmitted(id) \/ RecoverAbort(id)
  <2>0. orders[id].fill \in Nat
    BY <1>2, Constants DEF Row
  <2>1. orders[id].fill = 0
    BY <1>2, <1>3, <2>0 DEF RecoverUnsubmitted, RecoverAbort, WithoutEffect, HasDurableFill, FillFits
  <2>2. PICK o \in Row : /\ orders' = [orders EXCEPT ![id] = o]
                         /\ o.local = "TERMINAL"
                         /\ \A c \in {"exit", "req", "pre", "fill", "after"} : o[c] = orders[id][c]
    <3>1. CASE RecoverUnsubmitted(id)
      <4>. DEFINE o == [orders[id] EXCEPT !.status = "RECOVERED_ABORTED", !.local = "TERMINAL"]
      <4>1. orders' = [orders EXCEPT ![id] = o]
        BY <1>1, <3>1 DEF RecoverUnsubmitted, TypeOK
      <4>2. /\ o \in Row /\ o.local = "TERMINAL"
            /\ \A c \in {"exit", "req", "pre", "fill", "after"} : o[c] = orders[id][c]
        BY <1>2 DEF Row, Locals, Statuses
      <4>. QED
        BY <4>1, <4>2
    <3>2. CASE RecoverAbort(id)
      <4>. DEFINE o == [orders[id] EXCEPT !.status = "RECOVERED_ABORTED", !.local = "TERMINAL",
                                          !.external = "none"]
      <4>1. orders' = [orders EXCEPT ![id] = o]
        BY <1>1, <3>2 DEF RecoverAbort, TypeOK
      <4>2. /\ o \in Row /\ o.local = "TERMINAL"
            /\ \A c \in {"exit", "req", "pre", "fill", "after"} : o[c] = orders[id][c]
        BY <1>2 DEF Row, Locals, Statuses
      <4>. QED
        BY <4>1, <4>2
    <3>. QED
      BY <1>3, <3>1, <3>2
  <2>3. PlanFits(id, o) /\ FillFits(o, draw[id])
    BY <1>1, <1>2, <2>1, <2>2 DEF PlanFits, FillFits
  <2>4. durable' = durable /\ up' = up
    BY <1>3 DEF RecoverUnsubmitted, RecoverAbort
  <2>5. orders'[id] = o => HandFits'
    BY <1>1 DEF HandFits
  <2>6. hand' \in Hands /\ phase' \in Phases
    BY <1>1 DEF TypeOK, Hands, Phases
  <2>. QED
    BY <1>1, <1>2, <2>2, <2>3, <2>4, <2>5, <2>6, RowMoves
<1>4. CASE RecoverApply(id) \/ RecoverFinalize(id)
  <2>1. /\ orders' \in [Ids -> Row] /\ RowsFit' /\ durable' \in Engine /\ (Balance => Balance')
        /\ up' = up
    BY <1>1, <1>4, ApplyKeeps, FinalizeKeeps DEF RecoverApply, RecoverFinalize
  <2>2. TypeOK' /\ HandFits' /\ MemoryFollows'
    BY <1>1, <2>1 DEF TypeOK, HandFits, MemoryFollows
  <2>. QED
    BY <1>1, <2>1, <2>2 DEF PaperInv
<1>5. CASE RecoverManual(id)
  <2>1. UNCHANGED <<orders, durable>> /\ up' = "manual"
    BY <1>5 DEF RecoverManual
  <2>2. RowsFit' /\ (Balance => Balance')
    BY <1>1, <2>1, JournalStays
  <2>3. TypeOK' /\ HandFits' /\ MemoryFollows'
    BY <1>1, <2>1 DEF TypeOK, HandFits, MemoryFollows
  <2>. QED
    BY <1>1, <2>2, <2>3 DEF PaperInv
<1>. QED
  BY <1>3, <1>4, <1>5

LEMMA StartsPaper == PaperInv /\ (Start \/ FinishRecovery) => PaperInv'
<1>. SUFFICES ASSUME PaperInv, Start \/ FinishRecovery PROVE PaperInv'
  OBVIOUS
<1>1. TypeOK /\ RowsFit /\ up # "loop" /\ hand.step = "none" /\ durable \in Engine
  BY NoHand DEF PaperInv, TypeOK, Start, FinishRecovery
<1>2. UNCHANGED <<orders, draw, hand, bars, crashes, faults>>
  BY DEF Start, FinishRecovery, Frame
<1>3. Reconstructed(durable) \in Engine /\ Reconstructed(durable).pos = durable.pos
  BY <1>1 DEF Reconstructed, Engine
<1>4. /\ durable' \in Engine /\ mem' = durable' /\ durable'.pos = durable.pos
      /\ up' \in {"recovering", "loop"} /\ phase' \in Phases
  BY <1>1, <1>3 DEF Start, FinishRecovery, LoadState, Phases, TypeOK
<1>5. RowsFit' /\ (Balance => Balance')
  BY <1>1, <1>2, <1>4, JournalStays
<1>6. TypeOK' /\ HandFits' /\ MemoryFollows'
  BY <1>1, <1>2, <1>4 DEF TypeOK, HandFits, MemoryFollows, Phases
<1>. QED
  BY <1>2, <1>5, <1>6 DEF PaperInv

LEMMA NextPaper == PaperInv /\ [Next]_vars => PaperInv'
<1>. SUFFICES ASSUME PaperInv, [Next]_vars PROVE PaperInv'
  OBVIOUS
<1>1. CASE Order \/ ExecuteFails
  BY <1>1, MarkSubmittingKeeps, ExecuteKeeps, ObserveKeeps, PersistEvidenceKeeps, AppliesPaper,
     ReloadsPaper, RecordsPaper, ExecuteFailsKeeps DEF Order
<1>2. CASE Recover
  BY <1>2, RecoversOrder, StartsPaper DEF Recover
<1>3. CASE UNCHANGED vars
  <2>1. UNCHANGED <<orders, draw, durable, mem, up, phase, hand, bars, crashes, faults>>
    BY <1>3 DEF vars
  <2>2. RowsFit' /\ (Balance => Balance')
    BY <2>1, JournalStays DEF PaperInv
  <2>3. TypeOK' /\ HandFits' /\ (MemoryFollows => MemoryFollows')
    BY <2>1 DEF PaperInv, TypeOK, HandFits, MemoryFollows
  <2>. QED
    BY <2>1, <2>2, <2>3 DEF PaperInv
<1>. QED
  BY <1>1, <1>2, <1>3, CyclePaper, FaultsPaper DEF Next

-----------------------------------------------------------------------------
(* Theorems. *)

\* Rows, plans, memory and position keep their shape, and the order in hand is
\* at its step (state_store.py rows, runner.py memory).
THEOREM PaperInvariant == Spec => []PaperInv
BY InitPaper, NextPaper, PTL DEF Spec

\* As long as the loop swallowed no store error, the position of the engine
\* state is what the applied fills add up to and the memory agrees between two
\* orders: no restart, retry or checkpoint applies a fill twice or writes over
\* one (runner.py and recovery.py, apply_financial_fill_atomically).
THEOREM LedgerIsBook == Spec => []BookIsLedger
<1>1. PaperInv => BookIsLedger
  <2>. SUFFICES ASSUME PaperInv, faults = 0
                PROVE  /\ durable.pos + Cardinality(Lots(TRUE)) = Cardinality(Lots(FALSE))
                       /\ up = "loop" /\ hand = Idle => mem.pos = durable.pos
    BY DEF BookIsLedger
  <2>1. durable.pos + Cardinality(Lots(TRUE)) = Cardinality(Lots(FALSE))
    BY DEF PaperInv, Balance
  <2>2. hand = Idle => hand.step # "applied"
    BY DEF Idle
  <2>. QED
    BY <2>1, <2>2 DEF PaperInv, MemoryFollows
<1>. QED
  BY <1>1, PaperInvariant, PTL

(***************************************************************************)
(* The campaigns (Qualification).                                          *)
(***************************************************************************)

Report == [campaign : Nat, generated : Nat, pass : BOOLEAN]
CampaignRow == [protocol : {2, 3}, status : {"RUNNING", "PASSED", "CANCELED"}, release : Releases,
        record : Nat, started : Nat, ended : Nat \cup {Never}, report : Report]
Stage == {"idle", "record", "bind", "insert", "check", "evaluate", "finish", "cancel", "admit"}
Memory == [at : Stage, release : Releases, record : Nat, campaign : Nat, report : Report]

Typed ==
    /\ now \in Nat /\ release \in Releases
    /\ records \in Seq(Releases) /\ campaigns \in Seq(CampaignRow)
    /\ cmd \in [Commands -> Memory]
    /\ admitted \in [campaign : Nat, release : Releases]

\* A command names a campaign that exists, and the gate one that passed.
Named(m) ==
    /\ m.at \in {"check", "evaluate", "finish", "cancel", "admit"} => m.campaign \in DOMAIN campaigns
    /\ m.at = "admit" => campaigns[m.campaign].status = "PASSED"

CommandsFit == \A p \in Commands : Named(cmd[p])

\* The campaign of an admission exists.
Standing == admitted.campaign # 0 => admitted.campaign \in DOMAIN campaigns

QualificationInv == Typed /\ CommandsFit /\ Standing /\ BoundToItsRecord /\ AdmissionIsEarned

-----------------------------------------------------------------------------
(* Lemmas. *)

LEMMA FirstExists ==
    ASSUME NEW T, T \subseteq Nat, T # {}
    PROVE  \E x \in T : \A y \in T : x <= y
<1>. DEFINE R == {ss \in Nat \X Nat : ss[1] < ss[2]}
<1>1. IsWellFoundedOn(R, Nat)
  BY NatLessThanWellFounded DEF OpToRel
<1>. HIDE DEF R
<1>2. PICK x \in T : \A y \in T : ~ (<<y, x>> \in R)
  BY <1>1, WFMin, Zenon
<1>3. ASSUME NEW y \in T PROVE x <= y
  <2>1. y < x => <<y, x>> \in R
    BY DEF R
  <2>. QED
    BY <2>1, <1>2
<1>. QED
  BY <1>3

\* The last of some campaigns is one of them.
LEMMA LatestIsIn ==
    ASSUME NEW n \in Nat, NEW C \in SUBSET (1 .. n), C # {}
    PROVE  Latest(C) \in C
<1>. DEFINE T == {n - c : c \in C}
<1>1. T \subseteq Nat /\ T # {}
  OBVIOUS
<1>2. PICK x \in T : \A y \in T : x <= y
  BY <1>1, FirstExists
<1>3. PICK c \in C : x = n - c
  BY <1>2
<1>4. \A d \in C : d <= c
  <2>1. SUFFICES ASSUME NEW d \in C PROVE d <= c
    OBVIOUS
  <2>2. n - c <= n - d /\ c \in Nat /\ d \in Nat
    BY <1>2, <1>3
  <2>. QED
    BY <2>2
<1>5. \E l \in C : \A d \in C : d <= l
  BY <1>4
<1>. QED
  BY <1>5 DEF Latest

\* A step that writes neither the records nor the campaigns nor the admission.
LEMMA OthersLeave ==
    ASSUME QualificationInv, UNCHANGED <<ledger, admitted>>, now' \in Nat, release' \in Releases,
           cmd' \in [Commands -> Memory], CommandsFit'
    PROVE  QualificationInv'
  BY DEF QualificationInv, Typed, Standing, BoundToItsRecord, AdmissionIsEarned, ledger

\* A command that keeps the ledger and forgets nothing it must name.
LEMMA Moves ==
    ASSUME QualificationInv, NEW p \in Commands, NEW m \in Memory, cmd' = [cmd EXCEPT ![p] = m],
           UNCHANGED <<ledger, admitted>>, UNCHANGED <<now, release>>, Named(m)
    PROVE  QualificationInv'
<1>1. cmd' \in [Commands -> Memory] /\ \A q \in Commands : cmd'[q] = IF q = p THEN m ELSE cmd[q]
  BY DEF QualificationInv, Typed
<1>2. CommandsFit'
  BY <1>1 DEF QualificationInv, CommandsFit, Named, ledger
<1>. QED
  BY <1>1, <1>2, OthersLeave DEF QualificationInv, Typed

LEMMA IdleIsMemory == AtRest \in Memory /\ AtRest.at = "idle" /\ Named(AtRest)
  BY ReleaseAssumption DEF AtRest, Memory, Stage, Report, NoReport, Named

\* The campaigns grow, and only a running one changes.
LEMMA CampaignsMove ==
    ASSUME QualificationInv, campaigns' \in Seq(CampaignRow), UNCHANGED <<records, admitted, now, release>>,
           DOMAIN campaigns \subseteq DOMAIN campaigns',
           \A c \in DOMAIN campaigns : campaigns[c].status = "PASSED" => campaigns'[c] = campaigns[c],
           \A c \in DOMAIN campaigns' : campaigns'[c].protocol = 3 =>
               /\ campaigns'[c].record \in DOMAIN records
               /\ records[campaigns'[c].record] = campaigns'[c].release,
           cmd' \in [Commands -> Memory],
           \A q \in Commands : cmd'[q] = cmd[q] \/ cmd'[q] = AtRest
    PROVE  QualificationInv'
<1>1. Typed'
  BY DEF QualificationInv, Typed
<1>2. CommandsFit'
  <2>1. SUFFICES ASSUME NEW q \in Commands PROVE Named(cmd[q])'
    BY DEF CommandsFit
  <2>2. CASE cmd'[q] = AtRest
    BY <2>2 DEF Named, AtRest
  <2>3. CASE cmd'[q] = cmd[q]
    BY <2>3 DEF Named, QualificationInv, CommandsFit
  <2>. QED
    BY <2>2, <2>3
<1>3. Standing' /\ AdmissionIsEarned'
  BY DEF QualificationInv, Standing, AdmissionIsEarned
<1>4. BoundToItsRecord'
  BY DEF BoundToItsRecord
<1>. QED
  BY <1>1, <1>2, <1>3, <1>4 DEF QualificationInv

-----------------------------------------------------------------------------
(* The steps. *)

LEMMA InitBinds == QualificationInit => QualificationInv
<1>. SUFFICES ASSUME QualificationInit PROVE QualificationInv
  OBVIOUS
<1>1. << >> \in Seq(Releases) /\ << >> \in Seq(CampaignRow) /\ DOMAIN << >> = {}
  OBVIOUS
<1>2. Typed
  BY <1>1, IdleIsMemory, ReleaseAssumption DEF QualificationInit, Typed
<1>3. CommandsFit
  BY IdleIsMemory DEF QualificationInit, CommandsFit
<1>4. Standing /\ BoundToItsRecord /\ AdmissionIsEarned
  BY <1>1 DEF QualificationInit, Standing, BoundToItsRecord, AdmissionIsEarned
<1>. QED
  BY <1>2, <1>3, <1>4 DEF QualificationInv

LEMMA WorldMoves ==
    ASSUME QualificationInv,
           \/ Tick \/ Checkpoint \/ OpenOrder \/ CloseOrder \/ Latch
           \/ RecordIncident \/ ResolveIncident \/ Switch
    PROVE  QualificationInv'
<1>1. UNCHANGED <<ledger, admitted, cmd>>
  BY DEF Tick, Checkpoint, OpenOrder, CloseOrder, Latch, RecordIncident, ResolveIncident, Switch
<1>2. now' \in Nat /\ release' \in Releases
  BY DEF Tick, Checkpoint, OpenOrder, CloseOrder, Latch, RecordIncident, ResolveIncident, Switch,
     QualificationInv, Typed
<1>3. CommandsFit'
  BY <1>1 DEF QualificationInv, CommandsFit, Named, ledger
<1>. QED
  BY <1>1, <1>2, <1>3, OthersLeave DEF QualificationInv, Typed

\* Steps of a command that only change what it remembers.
LEMMA CollectMoves ==
    ASSUME QualificationInv, NEW p \in Commands, NEW next \in {"record", "bind"}, Collect(p, next)
    PROVE  QualificationInv'
<1>. DEFINE m == [AtRest EXCEPT !.at = next, !.release = release]
<1>1. cmd' = [cmd EXCEPT ![p] = m] /\ UNCHANGED <<ledger, admitted, now, release>>
  BY DEF Collect, Goto, World
<1>2. m \in Memory /\ m.at = next
  BY IdleIsMemory DEF Memory, Stage, QualificationInv, Typed
<1>3. Named(m)
  BY <1>2 DEF Named
<1>. QED
  BY <1>1, <1>2, <1>3, Moves

LEMMA ReadActiveMoves ==
    ASSUME QualificationInv, NEW p \in Commands, NEW next \in {"check", "cancel"}, ReadActive(p, next)
    PROVE  QualificationInv'
<1>. DEFINE m == [AtRest EXCEPT !.at = next, !.campaign = Latest(Running)]
<1>1. Running # {} /\ cmd' = [cmd EXCEPT ![p] = m] /\ UNCHANGED <<ledger, admitted, now, release>>
  BY DEF ReadActive, Goto, World
<1>2. Len(campaigns) \in Nat /\ DOMAIN campaigns = 1 .. Len(campaigns)
  BY DEF QualificationInv, Typed
<1>3. Running \subseteq 1 .. Len(campaigns)
  BY <1>2 DEF Running
<1>4. Latest(Running) \in Running /\ Latest(Running) \in Nat
  <2>1. Latest(Running) \in Running
    BY <1>1, <1>2, <1>3, LatestIsIn
  <2>2. Latest(Running) \in 1 .. Len(campaigns)
    BY <1>3, <2>1
  <2>. QED
    BY <1>2, <2>1, <2>2
<1>5. m \in Memory /\ m.at = next /\ m.campaign = Latest(Running)
  BY IdleIsMemory, <1>4 DEF Memory, Stage
<1>6. Named(m)
  BY <1>4, <1>5 DEF Named, Running
<1>. QED
  BY <1>1, <1>5, <1>6, Moves

LEMMA ReadPassedMoves ==
    ASSUME QualificationInv, NEW p \in Commands, ReadPassed(p)
    PROVE  QualificationInv'
<1>. DEFINE m == [AtRest EXCEPT !.at = "admit", !.campaign = Latest(Passed)]
<1>1. Passed # {} /\ cmd' = [cmd EXCEPT ![p] = m] /\ UNCHANGED <<ledger, admitted, now, release>>
  BY DEF ReadPassed, Goto, World
<1>2. Len(campaigns) \in Nat /\ DOMAIN campaigns = 1 .. Len(campaigns)
  BY DEF QualificationInv, Typed
<1>3. Passed \subseteq 1 .. Len(campaigns)
  BY <1>2 DEF Passed
<1>4. Latest(Passed) \in Passed /\ Latest(Passed) \in Nat
  <2>1. Latest(Passed) \in Passed
    BY <1>1, <1>2, <1>3, LatestIsIn
  <2>2. Latest(Passed) \in 1 .. Len(campaigns)
    BY <1>3, <2>1
  <2>. QED
    BY <1>2, <2>1, <2>2
<1>5. m \in Memory /\ m.at = "admit" /\ m.campaign = Latest(Passed)
  BY IdleIsMemory, <1>4 DEF Memory, Stage
<1>6. Named(m)
  BY <1>4, <1>5 DEF Named, Passed
<1>. QED
  BY <1>1, <1>5, <1>6, Moves

LEMMA BindMoves ==
    ASSUME QualificationInv, NEW p \in Commands, Bind(p)
    PROVE  QualificationInv'
<1>. DEFINE m == [cmd[p] EXCEPT !.at = "insert", !.release = release, !.record = Len(records)]
<1>1. (cmd' = [cmd EXCEPT ![p] = m] \/ cmd' = [cmd EXCEPT ![p] = AtRest])
      /\ UNCHANGED <<ledger, admitted, now, release>>
  BY DEF Bind, Goto, Leave, World
<1>2. m \in Memory /\ m.at = "insert"
  <2>1. cmd[p] \in Memory /\ release \in Releases /\ Len(records) \in Nat
    BY DEF QualificationInv, Typed
  <2>. QED
    BY <2>1 DEF Memory, Stage
<1>3. Named(m)
  BY <1>2 DEF Named
<1>. HIDE DEF m
<1>. QED
  BY <1>1, <1>2, <1>3, IdleIsMemory, Moves

LEMMA CheckMoves ==
    ASSUME QualificationInv, NEW p \in Commands, CheckBinding(p)
    PROVE  QualificationInv'
<1>. DEFINE m == [cmd[p] EXCEPT !.at = "evaluate"]
<1>1. (cmd' = [cmd EXCEPT ![p] = m] \/ cmd' = [cmd EXCEPT ![p] = AtRest])
      /\ UNCHANGED <<ledger, admitted, now, release>> /\ cmd[p].at = "check"
  BY DEF CheckBinding, Goto, Leave, World, At
<1>2. m \in Memory /\ m.at = "evaluate" /\ m.campaign = cmd[p].campaign
  BY DEF Memory, Stage, QualificationInv, Typed
<1>3. Named(m)
  BY <1>1, <1>2 DEF Named, QualificationInv, CommandsFit
<1>. HIDE DEF m
<1>. QED
  BY <1>1, <1>2, <1>3, IdleIsMemory, Moves

\* The report is that of a campaign that runs or passed, or none.
LEMMA ReportIsTyped == QualificationInv => ReportNow \in Report
<1>. SUFFICES ASSUME QualificationInv PROVE ReportNow \in Report
  OBVIOUS
<1>1. Len(campaigns) \in Nat /\ DOMAIN campaigns = 1 .. Len(campaigns)
      /\ \A c \in DOMAIN campaigns : campaigns[c] \in CampaignRow
  BY DEF QualificationInv, Typed
<1>2. Running \subseteq 1 .. Len(campaigns) /\ Passed \subseteq 1 .. Len(campaigns)
  BY <1>1 DEF Running, Passed
<1>3. CASE Running # {}
  <2>1. Latest(Running) \in Nat
    <3>1. Latest(Running) \in Running
      BY <1>1, <1>2, <1>3, LatestIsIn
    <3>2. Latest(Running) \in 1 .. Len(campaigns)
      BY <1>2, <3>1
    <3>. QED
      BY <1>1, <3>2
  <2>2. Ready(campaigns[Latest(Running)]) \in BOOLEAN
    BY DEF Ready
  <2>. QED
    BY <1>3, <2>1, <2>2 DEF ReportNow, Report, QualificationInv, Typed
<1>4. CASE Running = {} /\ Passed = {}
  BY <1>4 DEF ReportNow, LatestOrNone, NoReport, Report
<1>5. CASE Running = {} /\ Passed # {}
  <2>. DEFINE last == Latest(Passed)
  <2>1. last \in Passed
    BY <1>1, <1>2, <1>5, LatestIsIn
  <2>2. last # 0 /\ campaigns[last] \in CampaignRow
    <3>1. last \in 1 .. Len(campaigns)
      BY <1>2, <2>1
    <3>. HIDE DEF last
    <3>. QED
      BY <1>1, <3>1
  <2>3. campaigns[last].report \in Report
    BY <2>2 DEF CampaignRow
  <2>4. LatestOrNone(Passed) = last
    BY <1>5 DEF LatestOrNone
  <2>. HIDE DEF last
  <2>5. ReportNow = [campaigns[last].report EXCEPT
            !.pass = @ /\ campaigns[last].protocol = 3 /\ now - campaigns[last].ended <= ValidTicks]
    BY <1>5, <2>2, <2>4 DEF ReportNow
  <2>. QED
    BY <2>3, <2>5 DEF Report
<1>. QED
  BY <1>3, <1>4, <1>5

LEMMA EvaluateMoves ==
    ASSUME QualificationInv, NEW p \in Commands, Evaluate(p)
    PROVE  QualificationInv'
<1>. DEFINE m == [cmd[p] EXCEPT !.at = "finish", !.report = ReportNow]
<1>1. (cmd' = [cmd EXCEPT ![p] = m] \/ cmd' = [cmd EXCEPT ![p] = AtRest])
      /\ UNCHANGED <<ledger, admitted, now, release>> /\ cmd[p].at = "evaluate"
  BY DEF Evaluate, Goto, Leave, World, At
<1>2. m \in Memory /\ m.at = "finish" /\ m.campaign = cmd[p].campaign
  BY ReportIsTyped DEF Memory, Stage, QualificationInv, Typed
<1>3. Named(m)
  BY <1>1, <1>2 DEF Named, QualificationInv, CommandsFit
<1>. HIDE DEF m
<1>. QED
  BY <1>1, <1>2, <1>3, IdleIsMemory, Moves

\* The records only grow.
LEMMA RecordBinds ==
    ASSUME QualificationInv, NEW p \in Commands, Record(p)
    PROVE  QualificationInv'
<1>1. /\ records' = records \/ records' = Append(records, release)
      /\ cmd' = [cmd EXCEPT ![p] = AtRest] /\ UNCHANGED <<campaigns, admitted, now, release>>
  BY DEF Record, Leave, Goto, World
<1>2. /\ records' \in Seq(Releases) /\ DOMAIN records \subseteq DOMAIN records'
      /\ \A r \in DOMAIN records : records'[r] = records[r]
  <2>1. records \in Seq(Releases) /\ release \in Releases
    BY DEF QualificationInv, Typed
  <2>2. CASE records' = records
    BY <2>1, <2>2
  <2>3. CASE records' = Append(records, release)
    BY <2>1, <2>3
  <2>. QED
    BY <1>1, <2>2, <2>3
<1>3. cmd' \in [Commands -> Memory] /\ \A q \in Commands : cmd'[q] = IF q = p THEN AtRest ELSE cmd[q]
  BY <1>1, IdleIsMemory DEF QualificationInv, Typed
<1>4. Typed'
  BY <1>1, <1>2, <1>3 DEF QualificationInv, Typed
<1>5. CommandsFit'
  BY <1>1, <1>3, IdleIsMemory DEF QualificationInv, CommandsFit, Named
<1>6. BoundToItsRecord' /\ Standing' /\ AdmissionIsEarned'
  BY <1>1, <1>2 DEF QualificationInv, BoundToItsRecord, Standing, AdmissionIsEarned
<1>. QED
  BY <1>4, <1>5, <1>6 DEF QualificationInv

\* A new campaign, after all the others.
LEMMA AppendBinds ==
    ASSUME QualificationInv, NEW c \in CampaignRow, campaigns' = Append(campaigns, c),
           UNCHANGED <<records, admitted, now, release>>,
           c.protocol = 3 => c.record \in DOMAIN records /\ records[c.record] = c.release,
           cmd' \in [Commands -> Memory],
           \A q \in Commands : cmd'[q] = cmd[q] \/ cmd'[q] = AtRest
    PROVE  QualificationInv'
<1>1. campaigns \in Seq(CampaignRow)
  BY DEF QualificationInv, Typed
<1>2. /\ campaigns' \in Seq(CampaignRow) /\ DOMAIN campaigns' = DOMAIN campaigns \cup {Len(campaigns) + 1}
      /\ \A d \in DOMAIN campaigns : campaigns'[d] = campaigns[d]
      /\ campaigns'[Len(campaigns) + 1] = c
  BY <1>1
<1>3. \A d \in DOMAIN campaigns' : campaigns'[d].protocol = 3 =>
          /\ campaigns'[d].record \in DOMAIN records
          /\ records[campaigns'[d].record] = campaigns'[d].release
  BY <1>2 DEF QualificationInv, BoundToItsRecord
<1>. QED
  BY <1>2, <1>3, CampaignsMove

LEMMA CampaignIsRow ==
    ASSUME NEW protocol \in {2, 3}, NEW rel \in Releases, NEW rec \in Nat, NEW t \in Nat
    PROVE  /\ Campaign(protocol, rel, rec, t) \in CampaignRow
           /\ Campaign(protocol, rel, rec, t).protocol = protocol
           /\ Campaign(protocol, rel, rec, t).release = rel
           /\ Campaign(protocol, rel, rec, t).record = rec
  BY DEF Campaign, CampaignRow, Report, NoReport

LEMMA InsertBinds ==
    ASSUME QualificationInv, NEW p \in Commands, Insert(p)
    PROVE  QualificationInv'
<1>. DEFINE c == Campaign(3, cmd[p].release, cmd[p].record, now)
<1>1. /\ cmd' = [cmd EXCEPT ![p] = AtRest] /\ UNCHANGED <<records, admitted, now, release>>
      /\ \/ Insertable(p) /\ campaigns' = Append(campaigns, c)
         \/ campaigns' = campaigns
  BY DEF Insert, Leave, Goto, World
<1>2. CASE campaigns' = campaigns
  BY <1>1, <1>2, IdleIsMemory, Moves DEF ledger
<1>3. CASE Insertable(p) /\ campaigns' = Append(campaigns, c)
  <2>1. cmd[p].release \in Releases /\ cmd[p].record \in Nat /\ now \in Nat
    BY DEF QualificationInv, Typed, Memory
  <2>2. c \in CampaignRow /\ c.release = cmd[p].release /\ c.record = cmd[p].record
    BY <2>1, CampaignIsRow
  <2>3. c.record \in DOMAIN records /\ records[c.record] = c.release
    BY <1>3, <2>2 DEF Insertable
  <2>4. cmd' \in [Commands -> Memory] /\ \A q \in Commands : cmd'[q] = cmd[q] \/ cmd'[q] = AtRest
    BY <1>1, IdleIsMemory DEF QualificationInv, Typed
  <2>. HIDE DEF c
  <2>. QED
    BY <1>1, <1>3, <2>2, <2>3, <2>4, AppendBinds
<1>. QED
  BY <1>1, <1>2, <1>3

LEMMA UnboundBinds ==
    ASSUME QualificationInv, NEW p \in Commands, StartUnbound(p)
    PROVE  QualificationInv'
<1>. DEFINE c == Campaign(2, First, 0, now)
<1>1. UNCHANGED <<cmd, records, admitted, now, release>> /\ campaigns' = Append(campaigns, c)
  BY DEF StartUnbound, World
<1>2. now \in Nat /\ cmd' \in [Commands -> Memory]
  BY <1>1 DEF QualificationInv, Typed
<1>3. c \in CampaignRow /\ c.protocol = 2
  BY <1>2, CampaignIsRow, ReleaseAssumption
<1>. HIDE DEF c
<1>. QED
  BY <1>1, <1>2, <1>3, AppendBinds

\* A running campaign ends; one that ended stays what it is.
LEMMA FinishBinds ==
    ASSUME QualificationInv, NEW p \in Commands, NEW status \in {"PASSED", "CANCELED"}, Finish(p, status)
    PROVE  QualificationInv'
<1>. DEFINE t == Target(p)
            c == [campaigns[t] EXCEPT !.status = status, !.report = cmd[p].report,
                                      !.ended = IF status = "PASSED" THEN cmd[p].report.generated ELSE now]
<1>1. /\ cmd' = [cmd EXCEPT ![p] = AtRest] /\ UNCHANGED <<records, admitted, now, release>>
      /\ \/ t \in Running /\ campaigns' = [campaigns EXCEPT ![t] = c]
         \/ campaigns' = campaigns
  BY DEF Finish, Finishable, Leave, Goto, World
<1>2. CASE campaigns' = campaigns
  BY <1>1, <1>2, IdleIsMemory, Moves DEF ledger
<1>3. CASE t \in Running /\ campaigns' = [campaigns EXCEPT ![t] = c]
  <2>1. t \in DOMAIN campaigns /\ campaigns[t].status = "RUNNING" /\ campaigns[t] \in CampaignRow
        /\ campaigns \in Seq(CampaignRow) /\ now \in Nat /\ cmd[p].report \in Report
    BY <1>3 DEF Running, QualificationInv, Typed, Memory
  <2>2. /\ c \in CampaignRow /\ c.protocol = campaigns[t].protocol /\ c.record = campaigns[t].record
        /\ c.release = campaigns[t].release
    BY <2>1 DEF CampaignRow, Report
  <2>. HIDE DEF c, t
  <2>3. /\ campaigns' \in Seq(CampaignRow) /\ DOMAIN campaigns' = DOMAIN campaigns
        /\ \A d \in DOMAIN campaigns : campaigns'[d] = IF d = t THEN c ELSE campaigns[d]
    BY <1>3, <2>1, <2>2
  <2>4. \A d \in DOMAIN campaigns' : campaigns'[d].protocol = 3 =>
            /\ campaigns'[d].record \in DOMAIN records
            /\ records[campaigns'[d].record] = campaigns'[d].release
    BY <2>2, <2>3 DEF QualificationInv, BoundToItsRecord
  <2>5. \A d \in DOMAIN campaigns : campaigns[d].status = "PASSED" => campaigns'[d] = campaigns[d]
    BY <2>1, <2>3
  <2>6. cmd' \in [Commands -> Memory] /\ \A q \in Commands : cmd'[q] = cmd[q] \/ cmd'[q] = AtRest
    BY <1>1, IdleIsMemory DEF QualificationInv, Typed
  <2>. QED
    BY <1>1, <2>3, <2>4, <2>5, <2>6, CampaignsMove
<1>. QED
  BY <1>1, <1>2, <1>3

\* The gate reads a passed campaign, and the release it is bound to.
LEMMA AdmitBinds ==
    ASSUME QualificationInv, NEW p \in Commands, Admit(p)
    PROVE  QualificationInv'
<1>. DEFINE c == campaigns[cmd[p].campaign]
<1>1. /\ cmd[p].at = "admit" /\ cmd' = [cmd EXCEPT ![p] = AtRest]
      /\ UNCHANGED <<ledger, now, release>>
      /\ \/ BindingHolds(c) /\ admitted' = [campaign |-> cmd[p].campaign, release |-> release]
         \/ admitted' = admitted
  BY DEF Admit, At, Leave, Goto
<1>2. cmd[p].campaign \in DOMAIN campaigns /\ c.status = "PASSED"
  BY <1>1 DEF QualificationInv, CommandsFit, Named
<1>3. BindingHolds(c) => c.protocol = 3 /\ c.release = release
  BY DEF BindingHolds
<1>4. cmd' \in [Commands -> Memory] /\ \A q \in Commands : cmd'[q] = IF q = p THEN AtRest ELSE cmd[q]
  BY <1>1, IdleIsMemory DEF QualificationInv, Typed
<1>5. Typed'
  BY <1>1, <1>4 DEF QualificationInv, Typed, Memory, ledger
<1>6. CommandsFit'
  BY <1>1, <1>4, IdleIsMemory DEF QualificationInv, CommandsFit, Named, ledger
<1>7. BoundToItsRecord'
  BY <1>1 DEF QualificationInv, BoundToItsRecord, ledger
<1>8. Standing' /\ AdmissionIsEarned'
  BY <1>1, <1>2, <1>3 DEF QualificationInv, Standing, AdmissionIsEarned, ledger
<1>. QED
  BY <1>5, <1>6, <1>7, <1>8 DEF QualificationInv

-----------------------------------------------------------------------------
(* The invariant and what it shows. *)

LEMMA NextBinds == QualificationInv /\ [QualificationNext]_qualificationVars => QualificationInv'
<1>. SUFFICES ASSUME QualificationInv, [QualificationNext]_qualificationVars PROVE QualificationInv'
  OBVIOUS
<1>1. ASSUME NEW p \in Commands, Command(p) PROVE QualificationInv'
  BY <1>1, CollectMoves, RecordBinds, BindMoves, InsertBinds, UnboundBinds, ReadActiveMoves, CheckMoves,
     EvaluateMoves, FinishBinds, ReadPassedMoves, AdmitBinds DEF Command
<1>2. CASE UNCHANGED qualificationVars
  BY <1>2, OthersLeave DEF qualificationVars, ledger, QualificationInv, Typed, CommandsFit, Named
<1>. QED
  BY <1>1, <1>2, WorldMoves DEF QualificationNext

(* What the gate admits was bound to its release from the technical record  *)
(* to the admission, and nothing takes the campaign back.                   *)
THEOREM AdmissionBound == QualificationSpec => []AdmissionIsBound
<1>1. QualificationInv => AdmissionIsBound
  BY DEF QualificationInv, AdmissionIsBound
<1>. QED
  BY InitBinds, NextBinds, <1>1, PTL DEF QualificationSpec

-----------------------------------------------------------------------------
(* The merge of the coverage. *)

\* A bounded property of numbers holds when each case follows from the ones before.
LEMMA NoLeastFailure ==
    ASSUME NEW n \in Nat, NEW Holds \in SUBSET (0 .. n),
           \A t \in 0 .. n : (\A u \in 0 .. n : u < t => u \in Holds) => t \in Holds
    PROVE  \A t \in 0 .. n : t \in Holds
<1>. DEFINE R == {ss \in Nat \X Nat : ss[1] < ss[2]}
            F == {t \in 0 .. n : t \notin Holds}
<1>1. IsWellFoundedOn(R, Nat)
  BY NatLessThanWellFounded DEF OpToRel
<1>2. F \subseteq Nat
  OBVIOUS
<1>3. ASSUME F # {} PROVE FALSE
  <2>. HIDE DEF R, F
  <2>1. PICK x \in F : \A y \in F : ~ (<<y, x>> \in R)
    BY <1>1, <1>2, <1>3, WFMin, Zenon
  <2>. USE DEF R, F
  <2>2. ASSUME NEW u \in 0 .. n, u < x PROVE u \in Holds
    <3>1. u \notin Holds => <<u, x>> \in R
      BY <2>1, <2>2
    <3>. QED
      BY <2>1, <3>1
  <2>. QED
    BY <2>1, <2>2
<1>. QED
  BY <1>3

\* What a step computes from the last value, computed for every number up to a bound.
Computable(n, A, first, F) ==
    \E g \in [0 .. n -> A] : \A t \in 0 .. n : g[t] = F[<<t, IF t = 0 THEN first ELSE g[t - 1]>>]

LEMMA RecursionExists ==
    ASSUME NEW n \in Nat, NEW A, NEW first \in A, NEW F \in [(0 .. n) \X A -> A]
    PROVE  Computable(n, A, first, F)
<1>. DEFINE Fits(m, g) == \A t \in 0 .. m : g[t] = F[<<t, IF t = 0 THEN first ELSE g[t - 1]>>]
            Holds == {m \in 0 .. n : \E g \in [0 .. m -> A] : Fits(m, g)}
<1>1. ASSUME NEW m \in 0 .. n, \A u \in 0 .. n : u < m => u \in Holds PROVE m \in Holds
  <2>1. CASE m = 0
    <3>. DEFINE h == [t \in 0 .. 0 |-> F[<<0, first>>]]
    <3>1. h \in [0 .. m -> A] /\ h[0] = F[<<0, first>>] /\ \A t \in 0 .. m : t = 0
      BY <2>1
    <3>. HIDE DEF h
    <3>2. Fits(m, h)
      BY <3>1
    <3>. QED
      BY <3>1, <3>2
  <2>2. CASE m # 0
    <3>1. m - 1 \in 0 .. n /\ m - 1 < m /\ m \in Nat
      BY <2>2
    <3>2. PICK g \in [0 .. m - 1 -> A] : Fits(m - 1, g)
      BY <1>1, <3>1
    <3>. DEFINE h == [t \in 0 .. m |-> IF t = m THEN F[<<m, g[m - 1]>>] ELSE g[t]]
    <3>3. g[m - 1] \in A /\ F[<<m, g[m - 1]>>] \in A
      BY <3>1, <3>2
    <3>4. h \in [0 .. m -> A] /\ h[m] = F[<<m, g[m - 1]>>] /\ \A t \in 0 .. m - 1 : h[t] = g[t]
      BY <3>1, <3>3
    <3>. HIDE DEF h
    <3>5. ASSUME NEW t \in 0 .. m PROVE h[t] = F[<<t, IF t = 0 THEN first ELSE h[t - 1]>>]
      <4>1. CASE t = m
        <5>1. h[m - 1] = g[m - 1]
          BY <3>1, <3>4
        <5>. QED
          BY <2>2, <3>4, <4>1, <5>1
      <4>2. CASE t # m
        <5>1. t \in 0 .. m - 1 /\ (t # 0 => t - 1 \in 0 .. m - 1)
          BY <3>1, <4>2
        <5>. QED
          BY <3>2, <3>4, <5>1
      <4>. QED
        BY <4>1, <4>2
    <3>. QED
      BY <3>4, <3>5
  <2>. QED
    BY <2>1, <2>2
<1>2. n \in Holds
  <2>1. Holds \in SUBSET (0 .. n) /\ n \in 0 .. n
    OBVIOUS
  <2>. HIDE DEF Holds
  <2>2. \A m \in 0 .. n : m \in Holds
    BY <1>1, <2>1, NoLeastFailure
  <2>. QED
    BY <2>1, <2>2
<1>. QED
  BY <1>2 DEF Computable

\* One step of the merge, and the merge itself.
MergeStep(S, start, end, t, s) ==
    IF t \in Useful(S, start, end) THEN Extend(s, Interval(t, start, end)) ELSE s
Unmerged(start) == [covered |-> 0, left |-> start, right |-> start]
MergeStates == [covered : Int, left : Int, right : Int]

LEMMA MergeExists ==
    ASSUME NEW S \in SUBSET Nat, NEW start \in Nat, NEW end \in Nat
    PROVE  \E g \in [0 .. end -> MergeStates] :
               /\ g[end] = Merged(S, start, end)
               /\ \A t \in 0 .. end :
                      g[t] = MergeStep(S, start, end, t, IF t = 0 THEN Unmerged(start) ELSE g[t - 1])
<1>. DEFINE F == [x \in (0 .. end) \X MergeStates |-> MergeStep(S, start, end, x[1], x[2])]
<1>1. ASSUME NEW t \in 0 .. end, NEW s \in MergeStates
      PROVE  MergeStep(S, start, end, t, s) \in MergeStates
  <2>1. s.covered \in Int /\ s.left \in Int /\ s.right \in Int
    BY DEF MergeStates
  <2>2. Interval(t, start, end).left \in Int /\ Interval(t, start, end).right \in Int
    BY TimeAssumption DEF Interval, Most, Least
  <2>. QED
    BY <2>1, <2>2 DEF MergeStep, Extend, MergeStates, Most
<1>2. F \in [(0 .. end) \X MergeStates -> MergeStates]
  BY <1>1
<1>3. Unmerged(start) \in MergeStates
  BY DEF Unmerged, MergeStates
<1>4. ASSUME NEW t \in 0 .. end, NEW s \in MergeStates PROVE F[<<t, s>>] = MergeStep(S, start, end, t, s)
  OBVIOUS
<1>. HIDE DEF F
<1>5. PICK g \in [0 .. end -> MergeStates] :
          \A t \in 0 .. end : g[t] = F[<<t, IF t = 0 THEN Unmerged(start) ELSE g[t - 1]>>]
  <2>. DEFINE first == Unmerged(start)
              A == MergeStates
  <2>1. first \in A /\ F \in [(0 .. end) \X A -> A] /\ end \in Nat
    BY <1>2, <1>3
  <2>. HIDE DEF first, A
  <2>2. Computable(end, A, first, F)
    BY <2>1, RecursionExists
  <2>. QED
    BY <2>2 DEF Computable, first, A
<1>6. ASSUME NEW t \in 0 .. end
      PROVE  g[t] = MergeStep(S, start, end, t, IF t = 0 THEN Unmerged(start) ELSE g[t - 1])
  <2>1. (IF t = 0 THEN Unmerged(start) ELSE g[t - 1]) \in MergeStates
    BY <1>3, <1>5
  <2>. QED
    BY <1>4, <1>5, <2>1
<1>. DEFINE Follows(f) ==
        f = [t \in 0 .. end |->
                LET before == IF t = 0 THEN [covered |-> 0, left |-> start, right |-> start] ELSE f[t - 1]
                IN  IF t \in Useful(S, start, end) THEN Extend(before, Interval(t, start, end)) ELSE before]
            m == CHOOSE f : Follows(f)
<1>7. Follows(g)
  BY <1>5, <1>6 DEF MergeStep, Unmerged
<1>8. Follows(m)
  BY <1>7
<1>9. Merged(S, start, end) = m[end]
  BY DEF Merged
<1>10. ASSUME NEW t \in 0 .. end
       PROVE  m[t] = MergeStep(S, start, end, t, IF t = 0 THEN Unmerged(start) ELSE m[t - 1])
  BY <1>8 DEF MergeStep, Unmerged
<1>. DEFINE Same == {t \in 0 .. end : m[t] = g[t]}
<1>. HIDE DEF m, Follows
<1>11. \A t \in 0 .. end : t \in Same
  <2>1. ASSUME NEW t \in 0 .. end, \A u \in 0 .. end : u < t => u \in Same PROVE t \in Same
    <3>1. t # 0 => m[t - 1] = g[t - 1]
      BY <2>1
    <3>. QED
      BY <1>6, <1>10, <3>1
  <2>2. Same \in SUBSET (0 .. end)
    OBVIOUS
  <2>. HIDE DEF Same
  <2>. QED
    BY <2>1, <2>2, NoLeastFailure
<1>12. m[end] = g[end]
  BY <1>11
<1>. QED
  BY <1>6, <1>9, <1>12

\* The ticks that the samples before t cover, and what the merge knows of them.
Heard(S, start, end, t) == {k \in start .. end - 1 : \E u \in S : u < t /\ u <= k /\ k < u + Freshness}
MergeFits(S, start, end, t, s) ==
    /\ s \in MergeStates
    /\ start <= s.left /\ s.left <= s.right /\ s.right <= end
    /\ s.left <= Most(start, t)
    /\ \A k \in Heard(S, start, end, t) : k < s.right
    /\ s.left .. s.right - 1 \subseteq Heard(S, start, end, t)
    /\ Cardinality(Heard(S, start, end, t)) = s.covered + (s.right - s.left)

\* A set of ticks grows by the length of an interval.
AddsTicks(K, l, r) == Cardinality(K \cup (l .. r - 1)) = Cardinality(K) + (r - l)

\* It does when the interval is behind it.
LEMMA TicksAdd ==
    ASSUME NEW a \in Nat, NEW b \in Nat, NEW K \in SUBSET (a .. b), NEW l \in Nat, NEW r \in Nat, l <= r,
           \A k \in K : k < l
    PROVE  AddsTicks(K, l, r)
<1>1. IsFiniteSet(a .. b) /\ IsFiniteSet(l .. r - 1)
  BY FS_Interval
<1>2. IsFiniteSet(K)
  BY <1>1, FS_Subset, Zenon
<1>3. Cardinality(l .. r - 1) = r - l
  <2>1. l \in Int /\ r - 1 \in Int
    OBVIOUS
  <2>2. Cardinality(l .. r - 1) = IF l > r - 1 THEN 0 ELSE (r - 1) - l + 1
    BY <2>1, FS_Interval
  <2>. QED
    BY <2>2
<1>4. K \cap (l .. r - 1) = {}
  OBVIOUS
<1>5. Cardinality(K \cup (l .. r - 1)) = Cardinality(K) + Cardinality(l .. r - 1) - Cardinality({})
  BY <1>1, <1>2, <1>4, FS_Union
<1>6. Cardinality(K) \in Nat /\ Cardinality({}) = 0
  BY <1>2, FS_CardinalityType, FS_EmptySet
<1>. QED
  BY <1>3, <1>5, <1>6 DEF AddsTicks

LEMMA MergeStepFits ==
    ASSUME NEW S \in SUBSET Nat, NEW start \in Nat, NEW end \in Nat, start < end,
           NEW t \in 0 .. end, NEW s, MergeFits(S, start, end, t, s)
    PROVE  MergeFits(S, start, end, t + 1, MergeStep(S, start, end, t, s))
<1>. DEFINE K == Heard(S, start, end, t)
            L == Heard(S, start, end, t + 1)
            l == Most(start, t)
            r == Least(end, t + Freshness)
<1>1. Freshness \in Nat /\ Freshness > 0 /\ t \in Nat
  BY TimeAssumption
<1>2. /\ s \in MergeStates /\ s.covered \in Int /\ s.left \in Int /\ s.right \in Int
      /\ start <= s.left /\ s.left <= s.right /\ s.right <= end /\ s.left <= l
      /\ \A k \in K : k < s.right
      /\ s.left .. s.right - 1 \subseteq K /\ Cardinality(K) = s.covered + (s.right - s.left)
  BY DEF MergeFits, MergeStates
<1>3. l \in Nat /\ r \in Nat /\ start <= l /\ t <= l /\ r <= end /\ (l = start \/ l = t) /\ (r = end \/ r = t + Freshness)
      /\ r <= t + Freshness /\ l <= Most(start, t + 1)
  BY <1>1 DEF Most, Least
<1>4. CASE t \notin Useful(S, start, end)
  <2>1. L = K
    BY <1>1, <1>4 DEF Heard, Useful
  <2>2. MergeStep(S, start, end, t, s) = s
    BY <1>4 DEF MergeStep
  <2>. HIDE DEF K, L, l, r
  <2>3. s.left <= Most(start, t + 1)
    BY <1>1, <1>2, <1>3 DEF Most
  <2>4. MergeFits(S, start, end, t + 1, s)
    BY <1>2, <2>1, <2>3 DEF MergeFits, L
  <2>. QED
    BY <2>2, <2>4
<1>5. CASE t \in Useful(S, start, end)
  <2>1. t \in S /\ start - t < Freshness /\ t < end /\ l < r
    BY <1>1, <1>5 DEF Useful, Most, Least
  <2>2. L = K \cup (l .. r - 1)
    BY <1>1, <1>3, <2>1 DEF Heard, Most, Least
  <2>3. K \in SUBSET (start .. end)
    BY DEF Heard
  <2>4. MergeStep(S, start, end, t, s) = Extend(s, [left |-> l, right |-> r])
    BY <1>5 DEF MergeStep, Interval
  <2>. HIDE DEF K, L, l, r
  <2>5. CASE l <= s.right
    <3>. DEFINE w == Most(s.right, r)
                new == [s EXCEPT !.right = w]
    <3>1. Extend(s, [left |-> l, right |-> r]) = new
      BY <2>5 DEF Extend
    <3>2. w \in Nat /\ s.right <= w /\ r <= w /\ (w = s.right \/ w = r) /\ w <= end /\ s.right \in Nat
      BY <1>2, <1>3 DEF Most
    <3>3. new \in MergeStates /\ new.covered = s.covered /\ new.left = s.left /\ new.right = w
      BY <1>2, <3>2 DEF MergeStates
    <3>. HIDE DEF w, new
    <3>4. L = K \cup (s.right .. w - 1)
      <4>1. ASSUME NEW k \in l .. r - 1 PROVE k \in K \cup (s.right .. w - 1)
        BY <1>2, <1>3, <3>2, <4>1
      <4>2. ASSUME NEW k \in s.right .. w - 1 PROVE k \in l .. r - 1
        BY <1>3, <2>5, <3>2, <4>2
      <4>. QED
        BY <2>2, <4>1, <4>2
    <3>5. Cardinality(L) = Cardinality(K) + (w - s.right)
      <4>1. s.right \in Nat /\ w \in Nat /\ s.right <= w /\ \A k \in K : k < s.right
        BY <1>2, <3>2
      <4>2. AddsTicks(K, s.right, w)
        BY <2>3, <4>1, TicksAdd
      <4>. QED
        BY <3>4, <4>2 DEF AddsTicks
    <3>6. Cardinality(L) = new.covered + (new.right - new.left)
      BY <1>2, <3>2, <3>3, <3>5
    <3>7. \A k \in L : k < new.right
      <4>1. K \subseteq Int
        BY <2>3
      <4>. QED
        BY <1>2, <3>2, <3>3, <3>4, <4>1
    <3>8. new.left .. new.right - 1 \subseteq L
      BY <1>2, <3>2, <3>3, <3>4
    <3>9. start <= new.left /\ new.left <= new.right /\ new.right <= end /\ new.left <= Most(start, t + 1)
      BY <1>1, <1>2, <1>3, <3>2, <3>3 DEF Most
    <3>. QED
      BY <2>4, <3>1, <3>3, <3>6, <3>7, <3>8, <3>9 DEF MergeFits, L
  <2>6. CASE ~(l <= s.right)
    <3>. DEFINE new == [covered |-> s.covered + (s.right - s.left), left |-> l, right |-> r]
    <3>1. Extend(s, [left |-> l, right |-> r]) = new
      BY <2>6 DEF Extend
    <3>2. new \in MergeStates /\ new.covered = s.covered + (s.right - s.left) /\ new.left = l /\ new.right = r
      BY <1>2, <1>3 DEF MergeStates
    <3>. HIDE DEF new
    <3>3. \A k \in K : k < l
      <4>1. K \subseteq Int
        BY <2>3
      <4>. QED
        BY <1>2, <1>3, <2>6, <4>1
    <3>4. Cardinality(L) = Cardinality(K) + (r - l)
      <4>1. l \in Nat /\ r \in Nat /\ l <= r
        BY <1>3, <2>1
      <4>2. AddsTicks(K, l, r)
        BY <2>3, <3>3, <4>1, TicksAdd
      <4>. QED
        BY <2>2, <4>2 DEF AddsTicks
    <3>5. Cardinality(L) = new.covered + (new.right - new.left)
      BY <1>2, <1>3, <3>2, <3>4
    <3>6. \A k \in L : k < new.right
      <4>1. K \subseteq Int
        BY <2>3
      <4>. QED
        BY <1>3, <2>1, <2>2, <3>2, <3>3, <4>1
    <3>7. new.left .. new.right - 1 \subseteq L /\ start <= new.left /\ new.left <= new.right /\ new.right <= end
          /\ new.left <= Most(start, t + 1)
      BY <1>3, <2>1, <2>2, <3>2
    <3>. QED
      BY <2>4, <3>1, <3>2, <3>5, <3>6, <3>7 DEF MergeFits, L
  <2>. QED
    BY <2>5, <2>6
<1>. QED
  BY <1>4, <1>5

\* For every set of samples and every interval, of any freshness.
LEMMA MergeIsExact ==
    ASSUME NEW S \in SUBSET Nat, NEW start \in Nat, NEW end \in Nat, start < end
    PROVE  Covered(S, start, end) = Cardinality({k \in start .. end - 1 : \E t \in S : t <= k /\ k < t + Freshness})
<1>1. PICK g \in [0 .. end -> MergeStates] :
          /\ g[end] = Merged(S, start, end)
          /\ \A t \in 0 .. end :
                 g[t] = MergeStep(S, start, end, t, IF t = 0 THEN Unmerged(start) ELSE g[t - 1])
  BY MergeExists
<1>2. MergeFits(S, start, end, 0, Unmerged(start))
  <2>1. Heard(S, start, end, 0) = {}
    BY DEF Heard
  <2>2. Unmerged(start) \in MergeStates /\ Unmerged(start).covered = 0 /\ Unmerged(start).left = start
        /\ Unmerged(start).right = start
    BY DEF Unmerged, MergeStates
  <2>3. start .. start - 1 = {} /\ start <= Most(start, 0)
    BY DEF Most
  <2>4. Cardinality({}) = 0
    BY FS_EmptySet
  <2>. DEFINE s == Unmerged(start)
  <2>5. s.left .. s.right - 1 = {} /\ s.left <= Most(start, 0) /\ start <= s.left /\ s.left <= s.right /\ s.right <= end
    BY <2>2, <2>3
  <2>6. Cardinality(Heard(S, start, end, 0)) = s.covered + (s.right - s.left)
    BY <2>1, <2>2, <2>4
  <2>. HIDE DEF s
  <2>7. MergeFits(S, start, end, 0, s)
    BY <2>1, <2>2, <2>5, <2>6 DEF MergeFits, s
  <2>. QED
    BY <2>7 DEF s
<1>. DEFINE Holds == {t \in 0 .. end : MergeFits(S, start, end, t + 1, g[t])}
<1>3. \A t \in 0 .. end : t \in Holds
  <2>1. ASSUME NEW t \in 0 .. end, \A u \in 0 .. end : u < t => u \in Holds PROVE t \in Holds
    <3>1. CASE t = 0
      <4>1. g[0] = MergeStep(S, start, end, 0, Unmerged(start)) /\ 0 \in 0 .. end
        BY <1>1
      <4>2. MergeFits(S, start, end, 0 + 1, g[0])
        BY <1>2, <4>1, MergeStepFits
      <4>. QED
        BY <3>1, <4>2
    <3>2. CASE t # 0
      <4>1. t - 1 \in 0 .. end /\ t - 1 < t /\ (t - 1) + 1 = t
        BY <3>2
      <4>2. MergeFits(S, start, end, t, g[t - 1])
        BY <2>1, <4>1
      <4>3. g[t] = MergeStep(S, start, end, t, g[t - 1])
        BY <1>1, <3>2
      <4>. QED
        BY <4>2, <4>3, MergeStepFits
    <3>. QED
      BY <3>1, <3>2
  <2>2. Holds \in SUBSET (0 .. end)
    OBVIOUS
  <2>. HIDE DEF Holds
  <2>. QED
    BY <2>1, <2>2, NoLeastFailure
<1>4. MergeFits(S, start, end, end + 1, Merged(S, start, end))
  BY <1>1, <1>3
<1>5. Heard(S, start, end, end + 1) = {k \in start .. end - 1 : \E t \in S : t <= k /\ k < t + Freshness}
  BY DEF Heard
<1>. QED
  BY <1>4, <1>5 DEF MergeFits, Covered

LEMMA CoverageHolds == CoverageIsExact
<1>1. ASSUME NEW S \in SUBSET (0 .. Horizon), NEW start \in 0 .. Horizon, NEW end \in 0 .. Horizon, start < end
      PROVE  Covered(S, start, end) = Cardinality({k \in start .. end - 1 : \E t \in S : t <= k /\ k < t + Freshness})
  BY <1>1, MergeIsExact
<1>. QED
  BY <1>1 DEF CoverageIsExact

\* The merge of the intervals, in the order of their samples and without a second pass,
\* measures the ticks that have a sample within Freshness before them, for every set of
\* samples and every interval (readiness.py:1154).
THEOREM CoverageMeasures == QualificationSpec => []CoverageIsExact
BY CoverageHolds, PTL

=============================================================================
