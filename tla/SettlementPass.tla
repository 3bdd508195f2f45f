--------------------------- MODULE SettlementPass ---------------------------
(***************************************************************************)
(* How one external order with a durable fill commitment is settled from   *)
(* what the venue says of it.  A pass reads the order and its fills into   *)
(* memory (external_settlement_acquisition.py), journals each answer in a  *)
(* transaction of its own, then assesses the WHOLE journal, every earlier  *)
(* pass included (resolution_projection.py, resolution.py), and only then  *)
(* applies and finalises.  A pass that blocks, or a crash, stops the       *)
(* process; the next start runs another pass.  The venue may lag, answer   *)
(* nothing, contradict itself, or deliver one trade under two payloads.    *)
(***************************************************************************)
EXTENDS Naturals, Sequences, FiniteSets

CONSTANTS
    Payloads,   \* fill payloads the venue can deliver: [trade, raw, qty, tid]
    Requested,  \* quantity the order asked for
    MaxPass     \* bound: passes

ASSUME PayloadsAssumption ==
    /\ IsFiniteSet(Payloads)
    /\ \A r \in Payloads : r.qty \in 1 .. Requested
    /\ \A r, s \in Payloads : r.trade = s.trade => r.qty = s.qty /\ r.tid = s.tid
ASSUME BoundsAssumption == Requested \in Nat \ {0} /\ MaxPass \in Nat

Trades == {r.trade : r \in Payloads}

VARIABLES
    executed,    \* the trades the venue did for this order
    lookups,     \* order-lookup event of each pass
    observed,    \* external_order_observations: the pass that first wrote a snapshot
    fills,       \* external_fills
    badFill,     \* a fill lookup was journaled as invalid or conflicting
    settlements, \* external_order_settlements: window of each key (the rows)
    applied,     \* rows of the applied settlement, {} if none
    step,        \* where the pass is
    answer,      \* what this pass read, in memory
    pass         \* passes begun; also the clock of the pass

journal == <<lookups, observed, fills, badFill, settlements>>
passVars == <<executed, journal, applied, step, answer, pass>>

-----------------------------------------------------------------------------
(* What the venue may say. *)

\* A quantity is counted lot by lot: a payload has its quantity in lots, and
\* no trade of the order is larger than the order.
Lot == 1 .. Requested
Lots(rows) == {u \in rows \X Lot : u[2] <= u[1].qty}
Quantity(rows) == Cardinality(Lots(rows))
OnePayload(trades) == {CHOOSE r \in Payloads : r.trade = t : t \in trades}
\* The submission response commits the quantity, durably.
Committed == Quantity(OnePayload(executed))

\* What the exchange answers of the order: nothing, a mapping that cannot be
\* trusted (no client id, another one, a quantity missing, quantities that do
\* not add up), or the order with its status.
Kinds == {"order", "nothing", "no_cloid", "other_cloid", "no_quantity", "contradictory"}
Order(status, filled) == [kind |-> "order", status |-> status, filled |-> filled]
Deviant(kind) == [kind |-> kind, status |-> "none", filled |-> 0]
OrderReplies ==
    {Order("open", c) : c \in {n \in 0 .. Requested - 1 : n <= Committed}}
    \cup {Order(s, Committed) :
             s \in IF Committed = Requested THEN {"closed"} ELSE {"closed", "canceled", "expired"}}
    \cup {Deviant(k) : k \in Kinds \ {"order"}}
NoReply == Deviant("none")

Outcome(reply) ==
    CASE reply.kind = "order" -> "FOUND"
      [] reply.kind \in {"no_cloid", "no_quantity"} -> "INCOMPLETE_RESPONSE"
      [] reply.kind = "other_cloid" -> "CONFLICTING_RESPONSE"
      [] reply.kind = "contradictory" -> "INVALID_RESPONSE"
      [] OTHER -> "NOT_FOUND"

\* _normalization_status: an order closed with a remainder is of unknown state.
Normalized(reply) ==
    CASE reply.status = "open" -> IF reply.filled > 0 THEN "PARTIAL_OPEN" ELSE "OPEN"
      [] reply.status = "closed" /\ reply.filled = Requested -> "FILLED"
      [] reply.status = "canceled" -> "CANCELED"
      [] reply.status = "expired" -> "EXPIRED"
      [] OTHER -> "UNKNOWN"
Active == {"OPEN", "PARTIAL_OPEN"}
Terminal == {"FILLED", "CANCELED", "EXPIRED"}

\* A fill answer: the rows of this order, whether a row is unusable, and
\* whether the answer is as long as the venue's limit.
Deliverable == {r \in Payloads : r.trade \in executed}
FillReplies ==
    [rows : SUBSET Deliverable, bad : {"no"}, full : BOOLEAN]
    \cup [rows : {{}}, bad : {"incomplete", "conflict", "transport"}, full : {FALSE}]
FillOutcome(reply) ==
    CASE reply.bad = "incomplete" -> "INCOMPLETE_RESPONSE"
      [] reply.bad = "conflict" -> "CONFLICTING_RESPONSE"
      [] reply.bad = "transport" -> "TRANSPORT_FAILURE"
      [] reply.rows # {} -> "FOUND"
      [] OTHER -> IF reply.full THEN "INCOMPLETE_RESPONSE" ELSE "NO_MATCH"

-----------------------------------------------------------------------------
(* Acquisition: every read of a pass, in memory. *)

\* A found order whose state is terminal; anything else blocks the pass here.
ReadsFills(order) == Outcome(order) = "FOUND" /\ Normalized(order) \in Terminal

\* The second, confirming read is made only after a full first one.
Full(reply) == FillOutcome(reply) = "FOUND" /\ ~reply.full
FillReads ==
    {<<f>> : f \in {g \in FillReplies : ~Full(g)}}
    \cup {<<f, g>> : f \in {h \in FillReplies : Full(h)}, g \in FillReplies}

\* Complete: the rows add up to what the submission committed.
IsComplete(rows) == Quantity(rows) = Committed
\* The rows of the settlement this pass can build, {} when it can build none.
SettlementRows(reads) ==
    IF /\ Len(reads) = 2 /\ \A i \in 1 .. 2 : Full(reads[i])
       /\ reads[1].rows \subseteq reads[2].rows
       /\ IsComplete(reads[2].rows)
    THEN reads[2].rows ELSE {}

\* The end of the fill window is the time of the pass.
Window == pass

NoAnswer == [order |-> NoReply, fills |-> <<>>, rows |-> {}]

Acquire ==
    /\ step \in {"idle", "blocked"} /\ pass < MaxPass
    /\ pass' = pass + 1
    /\ \E o \in OrderReplies : \E reads \in (IF ReadsFills(o) THEN FillReads ELSE {<<>>}) :
           answer' = [order |-> o, fills |-> reads, rows |-> SettlementRows(reads)]
    /\ step' = "order"
    /\ UNCHANGED <<executed, journal, applied>>

-----------------------------------------------------------------------------
(* Persistence: one transaction per answer. *)

\* The identity of a snapshot leaves out when it was observed.
Snapshot(reply) == [state |-> Normalized(reply), cum |-> reply.filled]

\* Mutated form: the last event of an order replaces the earlier ones.
PersistOrderReplaced ==
    /\ step = "order"
    /\ lookups' = [p \in 1 .. MaxPass |-> IF p = pass THEN answer.order ELSE NoReply]
    /\ observed' = IF answer.order.kind = "order" THEN [s \in {Snapshot(answer.order)} |-> pass]
                   ELSE [s \in {} |-> 0]
    /\ step' = "fills"
    /\ UNCHANGED <<executed, fills, badFill, settlements, applied, answer, pass>>

\* append_external_order_observation: an observation already there stands.
WithObservation(s) ==
    IF s \in DOMAIN observed THEN observed
    ELSE [t \in DOMAIN observed \cup {s} |-> IF t = s THEN pass ELSE observed[t]]

\* The event is always appended, the observation only if its identity is new.
PersistOrder ==
    /\ step = "order"
    /\ lookups' = [lookups EXCEPT ![pass] = answer.order]
    /\ observed' = IF Outcome(answer.order) = "FOUND"
                   THEN WithObservation(Snapshot(answer.order)) ELSE observed
    /\ step' = "fills"
    /\ UNCHANGED <<executed, fills, badFill, settlements, applied, answer, pass>>

PersistFills ==
    /\ step = "fills" /\ answer.fills # <<>>
    /\ LET f == Head(answer.fills) IN
       /\ fills' = fills \cup f.rows
       /\ badFill' = (badFill \/ FillOutcome(f) = "CONFLICTING_RESPONSE")
    /\ answer' = [answer EXCEPT !.fills = Tail(@)]
    /\ UNCHANGED <<executed, lookups, observed, settlements, applied, step, pass>>

\* The key is made of the rows; the stored payload also holds the window, so
\* the same rows from another pass are a key conflict.
KeyConflict ==
    answer.rows \in DOMAIN settlements /\ settlements[answer.rows] # Window

PersistSettlement ==
    /\ step = "fills" /\ answer.fills = <<>>
    /\ ~KeyConflict
    /\ settlements' = IF answer.rows = {} THEN settlements
                      ELSE [R \in DOMAIN settlements \cup {answer.rows} |->
                               IF R = answer.rows THEN Window ELSE settlements[R]]
    /\ step' = "assess"
    /\ UNCHANGED <<executed, lookups, observed, fills, badFill, applied, answer, pass>>

PersistenceBlocked ==
    /\ step = "fills" /\ answer.fills = <<>>
    /\ KeyConflict
    /\ step' = "blocked"
    /\ UNCHANGED <<executed, journal, applied, answer, pass>>

-----------------------------------------------------------------------------
(* The projection of the journal and the resolution kernel. *)

Found(p) == Outcome(lookups[p]) = "FOUND"
At(p) == Snapshot(lookups[p])

\* Every FOUND event must be linked to an observation made when it was.
EventLinked(p) == Found(p) => observed[At(p)] = p
ProjectionReady == \A p \in 1 .. MaxPass : EventLinked(p)

BindingIncomplete == \E p \in 1 .. MaxPass : Outcome(lookups[p]) = "INCOMPLETE_RESPONSE"
BindingConflict == \E p \in 1 .. MaxPass : Outcome(lookups[p]) = "CONFLICTING_RESPONSE"

\* Rows that share a candidate trade id may be one trade delivered twice.
Linked(r) == {s \in fills : s.tid = r.tid}
Ambiguous == {r \in fills : Linked(r) # {r}}

\* conservative_fill_lower_bound: a component counts its smallest member.
CommonLots == {u \in {Linked(r) : r \in Ambiguous} \X Lot : \A r \in u[1] : u[2] <= r.qty}
LowerBound == Quantity(fills \ Ambiguous) + Cardinality(CommonLots)

\* Only a strictly later answer is held against an earlier one.
QuantityWentDown ==
    \E p, q \in 1 .. MaxPass : p < q /\ Found(p) /\ Found(q) /\ At(q).cum < At(p).cum
Reopened ==
    \E p, q \in 1 .. MaxPass : /\ p < q /\ Found(p) /\ Found(q)
                               /\ At(p).state \in Terminal /\ At(q).state \in Active
TwoEndings ==
    \E p, q \in 1 .. MaxPass : /\ Found(p) /\ Found(q)
                               /\ At(p).state \in Terminal /\ At(q).state \in Terminal \ {At(p).state}

BadAnswer ==
    badFill \/ \E p \in 1 .. MaxPass :
                   Outcome(lookups[p]) \in {"INVALID_RESPONSE", "CONFLICTING_RESPONSE"}

ConflictUnambiguous ==
    BindingConflict \/ QuantityWentDown \/ Reopened \/ TwoEndings \/ BadAnswer
    \/ LowerBound > Requested

Conflict ==
    \/ BindingConflict
    \/ QuantityWentDown \/ Reopened \/ TwoEndings
    \/ BadAnswer
    \/ Ambiguous # {}
    \/ LowerBound > Requested

\* The coordinator applies only on a ready projection without conflict.  A
\* second application of the order is refused by the store.
Settles ==
    /\ ProjectionReady /\ ~BindingIncomplete /\ ~Conflict
    /\ answer.rows # {}
    /\ applied = {}

\* apply_external_settlement_atomically.
Apply ==
    /\ step = "assess" /\ Settles
    /\ applied' = answer.rows
    /\ step' = "finalize"
    /\ UNCHANGED <<executed, journal, answer, pass>>

NotReady ==
    /\ step = "assess" /\ ~Settles
    /\ step' = "blocked"
    /\ UNCHANGED <<executed, journal, applied, answer, pass>>

Finalize ==
    /\ step = "finalize"
    /\ step' = "done"
    /\ UNCHANGED <<executed, journal, applied, answer, pass>>

\* The process dies and what was read is lost; the next start runs a pass.
PassDies ==
    /\ step \in {"order", "fills", "assess", "finalize"}
    /\ step' = "idle"
    /\ answer' = NoAnswer
    /\ UNCHANGED <<executed, journal, applied, pass>>

-----------------------------------------------------------------------------
PassInit ==
    /\ executed \in {T \in SUBSET Trades : T # {} /\ Quantity(OnePayload(T)) <= Requested}
    /\ lookups = [p \in 1 .. MaxPass |-> NoReply]
    /\ observed = [s \in {} |-> 0]
    /\ fills = {} /\ badFill = FALSE /\ settlements = [R \in {} |-> 0] /\ applied = {}
    /\ step = "idle" /\ answer = NoAnswer /\ pass = 0

PassNext ==
    \/ Acquire
    \/ PersistOrder \/ PersistFills \/ PersistSettlement \/ PersistenceBlocked
    \/ Apply \/ NotReady \/ Finalize
    \/ PassDies

PassSpec == PassInit /\ [][PassNext]_passVars

-----------------------------------------------------------------------------
(* Properties. *)

\* A contradiction of the venue stays one: no later pass can make the
\* assessment of the journal clean again.
ConflictNeverForgotten == [][Conflict => Conflict']_passVars

\* What the venue said, all passes together, has nothing to argue about.
VenueIsConsistent ==
    /\ \A p \in 1 .. MaxPass : lookups[p].kind \in {"none", "order", "nothing"}
    /\ ~badFill
    /\ \A r, s \in fills : r.tid = s.tid => r = s
    /\ \A p, q \in 1 .. MaxPass :
           p < q /\ Found(p) /\ Found(q) =>
               At(p).cum <= At(q).cum /\ (At(p).state \in Terminal => At(q).state \in {At(p).state, "UNKNOWN"})
NothingToldTwice == \A p, q \in 1 .. MaxPass : Found(p) /\ Found(q) /\ At(p) = At(q) => p = q

\* What is applied is what the venue executed, each trade once, whatever
\* payloads it was delivered under and however incomplete the answers were.
AppliedIsExecution ==
    applied # {} => /\ {r.trade : r \in applied} = executed
                    /\ \A r, s \in applied : r.trade = s.trade => r = s

\* The fail-closed kernel does not block what it should settle: a pass that
\* read a complete settlement, with a consistent venue that never repeated a
\* snapshot, is not blocked.
FirstCompletePassSettles ==
    step = "blocked" /\ answer.rows # {} /\ VenueIsConsistent => ~NothingToldTwice

\* The assessment applies what was executed, and does not refuse it for
\* nothing: both of the above.
SettlementIsJust == AppliedIsExecution /\ FirstCompletePassSettles

=============================================================================
