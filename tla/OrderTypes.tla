---- MODULE OrderTypes ----
(***************************************************************************)
(* The vocabulary of the order journal: the states of a row of the SQLite   *)
(* table "orders", the outcomes of one venue submission and the identity of *)
(* a financial transition (order_state.py, external_submission_commitment). *)
(***************************************************************************)
EXTENDS Integers

CONSTANTS
    Lot,        \* quantity an entry asks for, in lots
    MaxBar,     \* last closed bar of the bounded history
    MaxSeq      \* last transition sequence number of the bounded history

ASSUME LotAssumption == Lot \in Nat \ {0}
ASSUME BoundAssumption == MaxBar \in Nat /\ MaxSeq \in Nat

Quantity == 0 .. Lot

(* LocalOrderState; NONE stands for "no row". *)
LocalOrderState ==
    {"NONE", "INTENT_CREATED", "SUBMITTING", "AWAITING_EXTERNAL",
     "PENDING_RECONCILIATION", "TERMINAL"}

(* The legacy column "status" of a row. *)
OrderStatus ==
    {"NONE", "PENDING", "OPEN", "FILLED", "PARTIAL", "CANCELED", "RECOVERED_ABORTED"}

OrderRow == [local: LocalOrderState, status: OrderStatus]

Row(l, s) == [local |-> l, status |-> s]

(* ExternalSubmissionOutcome.  UNCOMMITTED gathers the outcomes that carry  *)
(* neither a fill commitment nor a proof of zero effect: AMBIGUOUS_TRANSPORT *)
(* _FAILURE, DETERMINISTIC_ORDER_ERROR, EXTERNAL_IOC_RESTING_CONFLICT,      *)
(* CONFLICTING_RESPONSE and INVALID_RESPONSE are treated alike downstream.  *)
Outcome == {"FILLED_COMMITMENT", "DETERMINISTIC_IOC_NO_MATCH", "UNCOMMITTED"}

Response == [outcome: Outcome, qty: Quantity]

(* LogicalOrderIdentity.  Checkpoint 0 is the stable checkpoint of a        *)
(* kill-switch exit ("kill_switch:entry=..:qty=.."), b > 0 is closed bar b. *)
Intent == [kind: {"ENTER", "EXIT"}, checkpoint: 0 .. MaxBar, seq: 0 .. MaxSeq]

(* The part of the trend engine's checkpoint the order path reads or writes:*)
(* the position, the transition sequence, the last bar, the kill switch, the*)
(* position timeline (intents in it) and the reconciliation latch.          *)
Payload ==
    [qty: Quantity, seq: 0 .. MaxSeq, bar: 0 .. MaxBar, halted: BOOLEAN,
     timeline: SUBSET Intent, latch: BOOLEAN]

FreshPayload ==
    [qty |-> 0, seq |-> 0, bar |-> 0, halted |-> FALSE, timeline |-> {}, latch |-> FALSE]
====
