------------------------------- MODULE Cutover -------------------------------
(****************************************************************************)
(* How the carry engine leaves its synthetic model for the two-leg one      *)
(* (carry_cutover.py): an operator reads the checkpoint, then applies a     *)
(* cutover to that very checkpoint while no engine holds the instance lock; *)
(* an engine may start at any moment, under the model its configuration     *)
(* says then.  Each engine commit stands for one change of the equity; the  *)
(* schema, the recovery marker and PAPER mode are checked elsewhere, and a  *)
(* PAPER carry writes no order.  A refused cutover writes nothing.          *)
(****************************************************************************)
EXTENDS Naturals

CONSTANTS
    MaxBooking,  \* bound: changes of the equity
    MaxCrash     \* bound: engines killed

CutoverAssumption == MaxBooking \in Nat /\ MaxCrash \in Nat

VARIABLES
    checkpoint,  \* engine_state, the carry row
    archive,     \* the synthetic row a model cutover put aside
    ledger,      \* a carry payment was ever booked
    alarm,       \* a CRITICAL carry incident is open
    model,       \* the model the configuration file names
    loop,        \* the engine: "down", "built" or "running"
    memory,      \* what the engine holds
    origin,      \* the checkpoint it last loaded or committed
    expected,    \* the checkpoint whose hash the operator was given
    booked,      \* changes of the equity so far
    bare,        \* the two-leg model took over a row no cutover prepared
    crashes

store == <<checkpoint, archive, ledger, alarm>>
engine == <<loop, memory, origin>>
history == <<booked, bare, crashes>>
vars == <<store, model, engine, expected, history>>

Capital == 0    \* what the policy gives an engine without a history

\* legs: the row has a two-leg balance, worth cash.
Row == [model : {"none", "synthetic", "two_leg"}, position : {"flat", "no_quantity", "open"},
        equity : Nat, legs : BOOLEAN, cash : Nat, stuck : BOOLEAN, uncertain : BOOLEAN]
Flat == [model |-> "none", position |-> "flat", equity |-> Capital, legs |-> FALSE,
         cash |-> Capital, stuck |-> FALSE, uncertain |-> FALSE]
NoRow == [Flat EXCEPT !.equity = MaxBooking + 1]

-----------------------------------------------------------------------------
(* The engine. *)

Commit(m) == memory' = m /\ checkpoint' = m /\ origin' = m
Keep == UNCHANGED <<checkpoint, alarm>> /\ origin' = checkpoint

\* Only some rows bring the two-leg balance with them: with the others it
\* stays as the constructor made it.
Balance(m, c) ==
    CASE m.model # "two_leg" -> m
      [] c.legs -> [m EXCEPT !.cash = c.cash, !.stuck = c.stuck]
      [] ~c.legs /\ c.position # "flat" -> [m EXCEPT !.uncertain = TRUE, !.stuck = TRUE]
      [] ~c.legs /\ c.position = "flat" /\ c.model = "two_leg" ->
             [m EXCEPT !.cash = c.equity, !.stuck = FALSE]
      [] OTHER -> m

\* _load_state over the memory m: a position without its economics makes the
\* accounting uncertain, durably.
LoadState(m) ==
    LET loaded == Balance([m EXCEPT !.position = checkpoint.position, !.equity = checkpoint.equity,
                                    !.uncertain = checkpoint.uncertain], checkpoint)
    IN IF loaded.position = "no_quantity" /\ ~loaded.uncertain
       THEN Commit([loaded EXCEPT !.uncertain = TRUE]) /\ alarm' = TRUE
       ELSE memory' = loaded /\ Keep

\* The constructor takes the lock, loads, and gives the lock back.
Construct ==
    /\ loop = "down"
    /\ loop' = "built"
    /\ LoadState([Flat EXCEPT !.model = model, !.legs = model = "two_leg"])
    /\ UNCHANGED <<archive, ledger, model, expected, history>>

\* run_forever takes it again, and loads again.
EnterLoop ==
    /\ loop = "built"
    /\ loop' = "running"
    /\ LoadState(memory)
    /\ bare' = (bare \/ (memory.model = "two_leg" /\ checkpoint.position = "flat"
                         /\ checkpoint.model # "two_leg"))
    /\ UNCHANGED <<archive, ledger, model, expected, booked, crashes>>

Ticking(m) == loop = "running" /\ memory.model = m /\ ~memory.uncertain /\ ~memory.stuck
Booking == booked < MaxBooking /\ booked' = booked + 1

\* A payment of a flat engine is booked for nothing.
ApplyFunding ==
    /\ Ticking("synthetic")
    /\ ledger' = TRUE
    /\ IF memory.position = "open"
       THEN Booking /\ Commit([memory EXCEPT !.equity = @ + 1])
       ELSE UNCHANGED booked /\ Commit(memory)
    /\ UNCHANGED <<archive, alarm, model, loop, expected, bare, crashes>>

OpenPosition ==
    /\ Ticking("synthetic") /\ memory.position = "flat"
    /\ Booking
    /\ Commit([memory EXCEPT !.position = "open", !.equity = @ + 1])
    /\ UNCHANGED <<archive, ledger, alarm, model, loop, expected, bare, crashes>>

ClosePosition ==
    /\ Ticking("synthetic") /\ memory.position = "open"
    /\ Booking
    /\ Commit([memory EXCEPT !.position = "flat", !.equity = @ + 1])
    /\ UNCHANGED <<archive, ledger, alarm, model, loop, expected, bare, crashes>>

\* A payment or a price that cannot be reconstructed.
MarkUncertain ==
    /\ Ticking("synthetic")
    /\ Commit([memory EXCEPT !.uncertain = TRUE])
    /\ alarm' = TRUE
    /\ UNCHANGED <<archive, ledger, model, loop, expected, history>>

\* The legs of CarryTwoLeg: the equity is what the balance says.
TickTwoLeg ==
    /\ Ticking("two_leg")
    /\ Booking
    /\ \E position \in {"flat", "open"} :
           Commit([memory EXCEPT !.position = position, !.cash = @ + 1, !.equity = memory.cash + 1])
    /\ UNCHANGED <<archive, ledger, alarm, model, loop, expected, bare, crashes>>

\* A clean stop saves the memory whatever it holds.
StopCleanly ==
    /\ loop = "running"
    /\ Commit(memory)
    /\ loop' = "down"
    /\ UNCHANGED <<archive, ledger, alarm, model, expected, history>>

Crash ==
    /\ loop # "down"
    /\ crashes < MaxCrash /\ crashes' = crashes + 1
    /\ loop' = "down"
    /\ UNCHANGED <<store, model, memory, origin, expected, booked, bare>>

-----------------------------------------------------------------------------
(* The operator. *)

Configure ==
    /\ \E m \in {"synthetic", "two_leg"} : m # model /\ model' = m
    /\ UNCHANGED <<store, engine, expected, history>>

\* --print-expected-state-sha256.
Diagnose ==
    /\ expected' = checkpoint
    /\ UNCHANGED <<store, model, engine, history>>

\* Mutated form: the cutover runs beside the engine.
LockFreeUnlooked == TRUE

LockFree == loop # "running"

\* build_flat_payload: the money stays, the position goes.
FlatPayload == [Flat EXCEPT !.equity = checkpoint.equity]

\* diagnose_legacy_synthetic_pattern, and what else must be absent.
LegacyPattern ==
    /\ checkpoint.position = "no_quantity" /\ ~checkpoint.uncertain
    /\ ~ledger /\ ~alarm

ApplyLegacyCutover ==
    /\ LockFree
    /\ expected = checkpoint
    /\ LegacyPattern
    /\ checkpoint' = FlatPayload
    /\ UNCHANGED <<archive, ledger, alarm, model, engine, expected, history>>

ApplyModelCutover ==
    /\ LockFree
    /\ ~(checkpoint.model = "two_leg" /\ checkpoint.position = "flat")
    /\ expected = checkpoint
    /\ ~checkpoint.uncertain /\ ~alarm
    /\ archive = NoRow
    /\ archive' = checkpoint
    /\ checkpoint' = [FlatPayload EXCEPT !.model = "two_leg"]
    /\ UNCHANGED <<ledger, alarm, model, engine, expected, history>>

-----------------------------------------------------------------------------

\* What production holds: a synthetic row, or the older one without quantities.
Init ==
    /\ checkpoint \in {[Flat EXCEPT !.model = "synthetic", !.position = p, !.equity = 1] : p \in {"flat", "open"}}
                      \cup {[Flat EXCEPT !.position = "no_quantity", !.equity = 1]}
    /\ archive = NoRow
    /\ ledger = FALSE /\ alarm = FALSE
    /\ model \in {"synthetic", "two_leg"}
    /\ loop = "down" /\ memory = Flat /\ origin = Flat
    /\ expected = NoRow
    /\ booked = 1 /\ bare = FALSE /\ crashes = 0

Engine ==
    \/ Construct \/ EnterLoop \/ ApplyFunding \/ OpenPosition \/ ClosePosition
    \/ MarkUncertain \/ TickTwoLeg \/ StopCleanly \/ Crash
Maintain == Configure \/ Diagnose \/ ApplyLegacyCutover \/ ApplyModelCutover
Next == Engine \/ Maintain

-----------------------------------------------------------------------------

\* Nothing is lost between an engine and a cutover: an engine at work never
\* saves over a checkpoint it has not seen, and the equity is what was booked,
\* across any number of cutovers, restarts and changes of the configuration.
\* (Unless the two-leg model is started on a row no model cutover prepared: it
\* then begins from the capital of its policy.)
CutoverLosesNothing ==
    /\ loop = "running" => origin = checkpoint
    /\ ~bare => checkpoint.equity = booked
=============================================================================
