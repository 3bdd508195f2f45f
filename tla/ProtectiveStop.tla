---- MODULE ProtectiveStop ----
(***************************************************************************)
(* The saga that keeps one exchange stop over the trend engine's position:  *)
(* journalled placement, proof that the previous stop is over, promotion,   *)
(* cancellation after an exit, observation of stops the venue executed, and *)
(* the restarts that resume all of it from the checkpoint.                  *)
(*                                                                         *)
(* One step is one SQLite commit, one call to the venue or one decision in  *)
(* memory; a crash may fall between any two.  A store error in the saga is  *)
(* wrapped in ReconciliationRequired and stops the process: it is Crash.    *)
(* The market orders of the cycle are one step here (journal, fill and      *)
(* position together): ExternalOrder models them.  One slot, one process:   *)
(* the flock of ExternalOrder.                                              *)
(***************************************************************************)
EXTENDS Integers, FiniteSets

CONSTANTS
    Lot,        \* largest position, in lots
    MaxStop,    \* stop intents of the bounded history
    MaxCrash,   \* bound on crashes
    Burst       \* StartLimitBurst of the unit

ASSUME StopAssumption ==
    /\ Lot \in Nat \ {0} /\ MaxStop \in Nat \ {0} /\ MaxCrash \in Nat
    /\ Burst \in Nat \ {0}

VARIABLES
    eng,        \* durable checkpoint of the slot
    row,        \* [Stop -> StopStatus]: rows of type STOP in table orders
    qty,        \* [Stop -> Quantity]: requested quantity of the row
    observed,   \* SUBSET Stop: rows "observed-stop-<id>", written with the fill
    venue,      \* [Stop -> VenueState]
    filled,     \* [Stop -> Quantity]: quantity the venue executed
    sends,      \* [Stop -> Nat]: create_order calls made
    net,        \* the venue's net position
    pc, mem, ret,   \* the process: its step, its slot, where the saga returns
    starts,     \* starts counted in the current StartLimitIntervalSec
    failed,     \* systemd gave the unit up
    crashes

durable == <<eng, row, qty, observed>>
exchange == <<venue, filled, sends, net>>
process == <<pc, mem, ret>>
unit == <<starts, failed, crashes>>
vars == <<durable, exchange, process, unit>>

(* Identities are fresh: _stop_intent_id hashes the generation, the previous *)
(* stop, the quantity and the price.  0 stands for None.                    *)
Stop == 1 .. MaxStop
Quantity == 0 .. Lot

StopStatus == {"NONE", "PENDING", "OPEN", "CANCELED", "FILLED", "PARTIAL"}

(* "flight": sent, the caller got an error, the venue may still accept it.  *)
VenueState == {"none", "flight", "open", "canceled", "filled", "partial"}

Phase == {"NONE", "PLACING", "SUBMITTING", "SUBMISSION_AMBIGUOUS",
          "VERIFY_OLD_TERMINAL", "PROMOTION_PENDING", "CANCELING",
          "RECONCILIATION_REQUIRED"}

(* slot.stop_transition.  replacement_stop_id is known exactly from         *)
(* VERIFY_OLD_TERMINAL on.                                                  *)
Transition == [kind: {"NONE", "REPLACE", "CANCEL"}, phase: Phase,
               new: 0 .. MaxStop, prev: 0 .. MaxStop]
NoTransition == [kind |-> "NONE", phase |-> "NONE", new |-> 0, prev |-> 0]

Slot == [pos: Quantity, active: 0 .. MaxStop, trans: Transition, latch: BOOLEAN]
FreshSlot == [pos |-> 0, active |-> 0, trans |-> NoTransition, latch |-> FALSE]

(* The phases of the startup and of the cycle, in order; the saga returns   *)
(* to the one after the phase that called it.                               *)
Following == [observe |-> "reconcile", reconcile |-> "recover",
              recover |-> "firstMonitor", firstMonitor |-> "monitor",
              monitor |-> "check", check |-> "trade", lastMonitor |-> "save"]
CyclePhase == {"observe", "reconcile", "recover", "firstMonitor", "monitor", "check",
               "trade", "trailed", "lastMonitor", "save"}
SagaPhase == {"protect", "place", "submit", "send", "raised", "ambiguous", "confirm",
              "cancel", "verify", "promote", "retire", "finish", "settle"}

Init ==
    /\ eng = FreshSlot /\ mem = FreshSlot
    /\ row = [s \in Stop |-> "NONE"]
    /\ qty = [s \in Stop |-> 0]
    /\ observed = {}
    /\ venue = [s \in Stop |-> "none"]
    /\ filled = [s \in Stop |-> 0]
    /\ sends = [s \in Stop |-> 0]
    /\ net = 0
    /\ pc = "down" /\ ret = "save"
    /\ starts = 0 /\ failed = FALSE /\ crashes = 0

(* -- the venue ---------------------------------------------------------- *)

Known(s) == venue[s] \in {"open", "canceled", "filled", "partial"}

SetVenue(s, v) == venue' = [venue EXCEPT ![s] = v]

Arrives(s) ==
    /\ venue[s] = "flight"
    /\ \E v \in {"open", "none"} : SetVenue(s, v)
    /\ UNCHANGED <<durable, filled, sends, net, process, unit>>

(* A reduce-only stop executes at most the net position; with none left it  *)
(* is canceled.                                                             *)
Triggers(s) ==
    /\ venue[s] = "open" /\ net > 0
    /\ \E k \in 1 .. Lot :
          /\ k <= net /\ k <= qty[s]
          /\ filled' = [filled EXCEPT ![s] = k]
          /\ net' = net - k
          /\ SetVenue(s, IF k = qty[s] THEN "filled" ELSE "partial")
    /\ UNCHANGED <<durable, sends, process, unit>>

CanceledByVenue(s) ==
    /\ venue[s] = "open"
    /\ SetVenue(s, "canceled")
    /\ UNCHANGED <<durable, filled, sends, net, process, unit>>

Venue == \E s \in Stop : Arrives(s) \/ Triggers(s) \/ CanceledByVenue(s)

(* -- helpers ------------------------------------------------------------ *)

(* A definition called a mutant is a deliberate mistake: a property is      *)
(* violated when it takes the place of the definition it names.             *)

Goto(l) == pc' = l /\ UNCHANGED ret

Die == pc' = "down" /\ mem' = FreshSlot /\ ret' = "save"

(* Memory and checkpoint take the same value: _save_state, or the checkpoint *)
(* of a commit that also writes a row.                                      *)
SaveSlot(slot) == eng' = slot /\ mem' = slot

InPhase(p) == [mem EXCEPT !.trans.phase = p]

(* _stop_transition_pending: the transition is saved as it stands and the   *)
(* process stops, to resume at the next start.                              *)
StopPending(slot) ==
    /\ eng' = slot
    /\ Die
    /\ UNCHANGED <<row, qty, observed, exchange, unit>>

(* _require_manual_reconciliation: the latch is saved, no start gets past it. *)
Latch(slot) ==
    /\ eng' = [slot EXCEPT !.latch = TRUE]
    /\ Die
    /\ UNCHANGED <<row, qty, observed, exchange, unit>>

(* A step that only moves the process. *)
Move(l) == Goto(l) /\ UNCHANGED <<mem, durable, exchange, unit>>

(* Calls the saga at one of its steps; it comes back to l. *)
Call(step, l) ==
    /\ pc' = step /\ ret' = l
    /\ UNCHANGED <<mem, durable, exchange, unit>>

(* -- inspection of the active stop -------------------------------------- *)

(* ProtectiveStopService.inspect: the decisions the state allows.  The      *)
(* lookup may fail; a partial fill is proven only when the venue reports    *)
(* nothing remaining.                                                       *)
Decides(d) ==
    LET s == mem.active
        inspected == mem.pos > 0 /\ s # 0
    IN  \/ d = "NOOP"
           /\ \/ mem.pos = 0 /\ s = 0
              \/ inspected /\ venue[s] = "open" /\ qty[s] = mem.pos
        \/ d = "REPLACE_REQUIRED"
           /\ \/ mem.pos > 0 /\ s = 0
              \/ inspected /\ venue[s] = "open" /\ qty[s] # mem.pos
              \/ inspected /\ venue[s] = "canceled"
        \/ d = "FILLED" /\ inspected /\ venue[s] = "filled" /\ filled[s] = mem.pos
        \/ d = "PARTIAL_FILLED" /\ inspected /\ venue[s] = "partial" /\ filled[s] < mem.pos
        \/ d = "UNCERTAIN" /\ s # 0

(* _materialize_filled_stop: fill, trade and checkpoint in one commit, under *)
(* the identity of the observation; the row of the stop follows (its own    *)
(* write is folded in: nothing reads it in between).                        *)
Materialize ==
    LET s == mem.active
        rest == [mem EXCEPT !.pos = mem.pos - filled[s], !.active = 0]
    IN  /\ s \notin observed
        /\ observed' = observed \cup {s}
        /\ row' = [row EXCEPT ![s] = IF rest.pos = 0 THEN "FILLED" ELSE "PARTIAL"]
        /\ SaveSlot(rest)
        /\ pc' = "settle" /\ ret' = Following[pc]
        /\ UNCHANGED <<qty, exchange, unit>>

(* After a materialised fill: what is left of the position gets a new stop. *)
Settle ==
    /\ pc = "settle"
    /\ Move(IF mem.pos > 0 THEN "protect" ELSE ret)

(* -- startup ------------------------------------------------------------ *)

(* A latched engine stays down.  systemd starts the process again, Burst    *)
(* times in StartLimitIntervalSec; the window may be over at any start.     *)
Boot ==
    /\ pc = "down" /\ ~eng.latch /\ ~failed
    /\ \E counted \in {0, starts} : counted < Burst /\ starts' = counted + 1
    /\ pc' = "observe" /\ mem' = eng
    /\ UNCHANGED <<ret, durable, exchange, failed, crashes>>

(* One start too many in the window: the unit fails and is not started      *)
(* again, until an operator resets it.                                      *)
StartRefused ==
    /\ pc = "down" /\ ~failed /\ starts = Burst
    /\ failed' = TRUE
    /\ UNCHANGED <<process, durable, exchange, starts, crashes>>

OperatorResets ==
    /\ failed
    /\ failed' = FALSE /\ starts' = 0
    /\ UNCHANGED <<process, durable, exchange, crashes>>

(* _observe_exchange_stop_fills: a stop executed while the engine was down  *)
(* is materialised before the position is compared; nothing is placed.      *)
Observe ==
    /\ pc = "observe"
    /\ LET skipped == mem.pos = 0 \/ mem.active = 0 \/ mem.trans # NoTransition IN
       \/ skipped /\ Move("reconcile")
       \/ ~skipped /\ (Decides("NOOP") \/ Decides("REPLACE_REQUIRED")) /\ Move("reconcile")
       \/ ~skipped /\ (Decides("FILLED") \/ Decides("PARTIAL_FILLED")) /\ Materialize
       \/ ~skipped /\ Decides("UNCERTAIN") /\ Latch(mem)

(* _maybe_reconcile_position: forced at the start, every 300 s in the cycle. *)
Reconcile ==
    /\ pc \in {"reconcile", "check"}
    /\ \/ net = mem.pos /\ Move(Following[pc])
       \/ pc = "check" /\ Move("trade")          \* not due
       \/ Latch(mem)                             \* divergence, or lookup failed

(* _resume_stop_transition: where the saga starts again. *)
ResumeAt(t) ==
    IF t.kind = "CANCEL" \/ (t.phase \in {"VERIFY_OLD_TERMINAL", "PROMOTION_PENDING"}
                             /\ t.prev # 0)
    THEN "cancel"
    ELSE IF t.phase \in {"VERIFY_OLD_TERMINAL", "PROMOTION_PENDING"} THEN "promote"
    ELSE "place"

(* _recover_protective_stop_transitions. *)
Recover ==
    /\ pc = "recover"
    /\ CASE mem.trans # NoTransition -> Call(ResumeAt(mem.trans), "firstMonitor")
         [] mem.trans = NoTransition /\ mem.pos > 0 /\ mem.active = 0 ->
                Call("protect", "firstMonitor")
         [] OTHER -> Move("firstMonitor")

(* Mutant of Monitor: a stop of the wrong quantity is taken for protection. *)
MonitorAnyQuantity ==
    /\ pc \in {"firstMonitor", "monitor", "lastMonitor"}
    /\ \/ mem.trans # NoTransition /\ Call(ResumeAt(mem.trans), Following[pc])
       \/ /\ mem.trans = NoTransition
          /\ \/ Decides("NOOP") /\ Move(Following[pc])
             \/ /\ Decides("REPLACE_REQUIRED")
                /\ IF mem.active # 0 /\ venue[mem.active] = "open"
                   THEN Move(Following[pc]) ELSE Call("protect", Following[pc])
             \/ (Decides("FILLED") \/ Decides("PARTIAL_FILLED")) /\ Materialize
             \/ Decides("UNCERTAIN") /\ Latch(mem)

(* _monitor_exchange_stops, at every tick before and after the decisions.   *)
Monitor ==
    /\ pc \in {"firstMonitor", "monitor", "lastMonitor"}
    /\ \/ mem.trans # NoTransition /\ Call(ResumeAt(mem.trans), Following[pc])
       \/ /\ mem.trans = NoTransition
          /\ \/ Decides("NOOP") /\ Move(Following[pc])
             \/ Decides("REPLACE_REQUIRED") /\ Call("protect", Following[pc])
             \/ (Decides("FILLED") \/ Decides("PARTIAL_FILLED")) /\ Materialize
             \/ Decides("UNCERTAIN") /\ Latch(mem)

(* -- the decisions of the cycle ----------------------------------------- *)

NextFresh(s) == row[s] = "NONE" /\ \A t \in 1 .. s - 1 : row[t] # "NONE"
CanJournal == \E s \in Stop : row[s] = "NONE"     \* bound of the history

NoDecision == pc \in {"trade", "trailed"} /\ Move("lastMonitor")

(* _enter_position: the fill is durable, then its stop is begun. *)
Enter ==
    /\ pc = "trade" /\ mem.pos = 0 /\ CanJournal
    /\ \E q \in 1 .. Lot :
          /\ net' = net + q
          /\ SaveSlot([mem EXCEPT !.pos = q])
    /\ pc' = "protect" /\ ret' = "lastMonitor"
    /\ UNCHANGED <<row, qty, observed, venue, filled, sends, unit>>

(* _process_bar tightens the stop; the bar may still ask for an exit. *)
Trail ==
    /\ pc = "trade" /\ mem.pos > 0 /\ mem.active # 0 /\ CanJournal
    /\ Call("protect", "trailed")

(* _exit_position, of a bar or of the kill switch: reduce-only, so that the *)
(* stop may have executed first.  A closed position prepares the            *)
(* cancellation of its stop, in memory only.                                *)
Exit ==
    /\ pc \in {"trade", "trailed"} /\ mem.pos > 0 /\ CanJournal
    /\ \E k \in 0 .. Lot :
          LET left == [mem EXCEPT !.pos = mem.pos - k]
              canceling == [NoTransition EXCEPT !.kind = "CANCEL", !.phase = "CANCELING",
                                                !.prev = mem.active]
          IN  /\ k <= net /\ k <= mem.pos
              /\ net' = net - k
              /\ eng' = left
              /\ IF left.pos = 0
                 THEN /\ mem' = IF mem.active = 0 THEN left
                                ELSE [left EXCEPT !.trans = canceling]
                      /\ pc' = "lastMonitor" /\ UNCHANGED ret
                 ELSE /\ mem' = left
                      /\ pc' = "protect" /\ ret' = "lastMonitor"
    /\ UNCHANGED <<row, qty, observed, venue, filled, sends, unit>>

(* The last save of the cycle, or of a clean shutdown. *)
SaveCycle ==
    /\ pc = "save"
    /\ SaveSlot(mem)
    /\ Goto("monitor")
    /\ UNCHANGED <<row, qty, observed, exchange, unit>>

(* -- the saga ----------------------------------------------------------- *)

(* _begin_stop_replacement: the intent and the checkpoint PLACING in one    *)
(* commit, before any call.                                                 *)
Begin ==
    /\ pc = "protect"
    /\ \E s \in Stop :
          /\ NextFresh(s)
          /\ row' = [row EXCEPT ![s] = "PENDING"]
          /\ qty' = [qty EXCEPT ![s] = mem.pos]
          /\ SaveSlot([mem EXCEPT !.trans = [kind |-> "REPLACE", phase |-> "PLACING",
                                             new |-> s, prev |-> mem.active]])
    /\ Goto("place")
    /\ UNCHANGED <<observed, exchange, unit>>

(* _lookup_stop_placement raised. *)
LookupFails ==
    /\ pc \in {"place", "ambiguous"}
    /\ StopPending(mem)

(* The order is not found (or not indexed yet).  Only PLACING proves that   *)
(* nothing was sent.                                                        *)
LookupMisses ==
    /\ pc \in {"place", "ambiguous"}
    /\ IF mem.trans.phase = "PLACING" THEN Move("submit") ELSE StopPending(mem)

(* Mutant of LookupFinds: a placement that raised is never trusted.          *)
LookupFindsUnlessRaised ==
    /\ pc \in {"place", "ambiguous"} /\ Known(mem.trans.new)
    /\ IF venue[mem.trans.new] = "open" /\ mem.trans.phase # "SUBMISSION_AMBIGUOUS"
       THEN Move("confirm")
       ELSE StopPending(mem)

(* The order is found: only OPEN without a fill protects.                   *)
LookupFinds ==
    /\ pc \in {"place", "ambiguous"} /\ Known(mem.trans.new)
    /\ IF venue[mem.trans.new] = "open" THEN Move("confirm")
       ELSE IF pc = "place" THEN Latch(mem)
       ELSE StopPending(mem)

(* _persist_stop_phase. *)
PersistPhase(from, phase, to) ==
    /\ pc = from
    /\ SaveSlot(InPhase(phase))
    /\ Goto(to)
    /\ UNCHANGED <<row, qty, observed, exchange, unit>>

(* Mutant of PersistSubmitting: the phase is left in memory.                *)
PersistSubmittingLater ==
    /\ pc = "submit"
    /\ mem' = InPhase("SUBMITTING")
    /\ Goto("send")
    /\ UNCHANGED <<durable, exchange, unit>>

PersistSubmitting == PersistPhase("submit", "SUBMITTING", "send")
PersistAmbiguous == PersistPhase("raised", "SUBMISSION_AMBIGUOUS", "ambiguous")
PersistPromotion == PersistPhase("promote", "PROMOTION_PENDING", "retire")

(* place_stop: an identifier, an order without one (the index is late), or  *)
(* an exception whatever the venue did.                                     *)
PlaceStop ==
    LET s == mem.trans.new IN
    /\ pc = "send"
    /\ sends' = [sends EXCEPT ![s] = sends[s] + 1]
    /\ \/ SetVenue(s, "open") /\ Goto("confirm") /\ UNCHANGED <<eng, mem>>
       \/ SetVenue(s, "open") /\ Die /\ eng' = mem
       \/ /\ \E v \in {"none", "flight", "open"} : SetVenue(s, v)
          /\ Goto("raised") /\ UNCHANGED <<eng, mem>>
    /\ UNCHANGED <<row, qty, observed, filled, net, unit>>

(* complete_order_and_checkpoint: the row and the checkpoint in one commit. *)
CompleteOrder(s, status, slot) == row' = [row EXCEPT ![s] = status] /\ SaveSlot(slot)

(* Mutant of Confirm: the old stop is not proven over before promotion.     *)
ConfirmPromotes ==
    LET s == mem.trans.new IN
    /\ pc = "confirm"
    /\ row' = [row EXCEPT ![s] = "OPEN"]
    /\ SaveSlot(InPhase("VERIFY_OLD_TERMINAL"))
    /\ Goto("promote")
    /\ UNCHANGED <<qty, observed, exchange, unit>>

(* The placement is confirmed.                                              *)
Confirm ==
    /\ pc = "confirm"
    /\ CompleteOrder(mem.trans.new, "OPEN", InPhase("VERIFY_OLD_TERMINAL"))
    /\ Goto(IF mem.trans.prev = 0 THEN "promote" ELSE "cancel")
    /\ UNCHANGED <<qty, observed, exchange, unit>>

(* cancel_stop of the previous stop; its errors prove nothing. *)
CancelAccepted ==
    /\ pc = "cancel" /\ venue[mem.trans.prev] = "open"
    /\ SetVenue(mem.trans.prev, "canceled")
    /\ Goto("verify")
    /\ UNCHANGED <<mem, durable, filled, sends, net, unit>>

CancelRefused ==
    /\ pc = "cancel"
    /\ Move("verify")

(* _verify_stop_terminal: the snapshot alone proves that the stop is over.  *)
VerifyTerminal ==
    /\ pc = "verify" /\ venue[mem.trans.prev] = "canceled"
    /\ mem' = InPhase("VERIFY_OLD_TERMINAL")
    /\ Goto(IF mem.trans.kind = "REPLACE" THEN "promote" ELSE "retire")
    /\ UNCHANGED <<durable, exchange, unit>>

VerifyExecuted ==
    /\ pc = "verify" /\ venue[mem.trans.prev] \in {"filled", "partial"}
    /\ Latch(InPhase("RECONCILIATION_REQUIRED"))

VerifyUnproven ==        \* still open, or the snapshot failed
    /\ pc = "verify"
    /\ StopPending(InPhase("VERIFY_OLD_TERMINAL"))

(* complete_order of the previous stop. *)
Retire ==
    /\ pc = "retire"
    /\ row' = [s \in Stop |-> IF s = mem.trans.prev THEN "CANCELED" ELSE row[s]]
    /\ Goto("finish")
    /\ UNCHANGED <<mem, eng, qty, observed, exchange, unit>>

(* The promotion, or the end of the cancellation, is the last checkpoint:   *)
(* transition.new is 0 for a cancellation.                                  *)
Finish ==
    /\ pc = "finish"
    /\ SaveSlot([mem EXCEPT !.active = mem.trans.new, !.trans = NoTransition])
    /\ pc' = ret /\ UNCHANGED ret
    /\ UNCHANGED <<row, qty, observed, exchange, unit>>

Crash ==
    /\ pc # "down" /\ crashes < MaxCrash
    /\ crashes' = crashes + 1
    /\ Die
    /\ UNCHANGED <<durable, exchange, starts, failed>>

(* -- specification ------------------------------------------------------ *)

Saga ==
    \/ Begin \/ LookupFails \/ LookupMisses \/ LookupFinds
    \/ PersistSubmitting \/ PersistAmbiguous \/ PersistPromotion
    \/ PlaceStop \/ Confirm \/ CancelAccepted \/ CancelRefused
    \/ VerifyTerminal \/ VerifyExecuted \/ VerifyUnproven
    \/ Retire \/ Finish \/ Settle

Cycle ==
    \/ Boot \/ StartRefused \/ Observe \/ Reconcile \/ Recover \/ Monitor
    \/ NoDecision \/ Enter \/ Trail \/ Exit \/ SaveCycle

Next == Saga \/ Cycle \/ Venue \/ Crash \/ OperatorResets

Spec == Init /\ [][Next]_vars

(* The venue answers a lookup: with the order once it exists.               *)
LookupAnswers == LookupFinds \/ (LookupMisses /\ ~Known(mem.trans.new))

(* systemd restarts the process up to its start limit and it keeps moving;  *)
(* nothing is asked of the operator.  The venue answers a lookup, a         *)
(* cancellation and a snapshot again and again, not every time.             *)
FairSpec ==
    /\ Spec
    /\ WF_vars(Saga \/ Cycle)
    /\ WF_vars(\E s \in Stop : Arrives(s))
    /\ SF_vars(LookupAnswers)
    /\ SF_vars(CancelAccepted)
    /\ SF_vars(VerifyTerminal \/ VerifyExecuted)
====
