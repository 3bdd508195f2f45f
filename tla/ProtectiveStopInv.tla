---- MODULE ProtectiveStopInv ----
(***************************************************************************)
(* The properties of the protective stop saga.                              *)
(***************************************************************************)
EXTENDS ProtectiveStop

(* Every variable stays in its domain (the slot of the checkpoint and of    *)
(* the process, the journal, the venue).                                    *)
TypeOK ==
    /\ eng \in Slot /\ mem \in Slot
    /\ row \in [Stop -> StopStatus]
    /\ qty \in [Stop -> Quantity]
    /\ observed \subseteq Stop
    /\ venue \in [Stop -> VenueState]
    /\ filled \in [Stop -> Quantity]
    /\ sends \in [Stop -> Nat]
    /\ net \in Nat
    /\ pc \in {"down"} \cup CyclePhase \cup SagaPhase
    /\ ret \in CyclePhase
    /\ starts \in 0 .. Burst /\ failed \in BOOLEAN /\ crashes \in 0 .. MaxCrash

(* One placement per intent, whatever is lost: a stop sent twice could      *)
(* execute twice ("Attendre l'index sans jamais recréer l'ordre").          *)
AtMostOnePlacement == \A s \in Stop : sends[s] <= 1

(* The runner never lets go of the old stop of a held position before the   *)
(* venue accepted the new one and the journal knows it                      *)
(* ("L'ancien stop reste la protection active jusqu'à confirmation").       *)
WithdrawnOnlyWhenReplaced ==
    [][ \A s \in Stop :
          (pc = "cancel" /\ venue[s] = "open" /\ venue'[s] = "canceled" /\ pc' = "verify")
          => \/ eng.pos = 0
             \/ Known(eng.trans.new) /\ row[eng.trans.new] = "OPEN" ]_vars

(* When the cycle decides trades, a held position has a stop of its own     *)
(* quantity that the venue accepted, and no transition is half done.        *)
NeverTradesNaked ==
    pc = "trade" /\ mem.pos > 0 =>
        /\ mem.trans = NoTransition
        /\ mem.active # 0
        /\ Known(mem.active) /\ qty[mem.active] = mem.pos

(* No live stop is forgotten: each one is the active stop of the durable    *)
(* checkpoint or one end of its transition, so that some start ends it.     *)
NoOrphanStop ==
    \A s \in Stop :
        venue[s] \in {"flight", "open"} =>
            s \in {eng.active, eng.trans.new, eng.trans.prev}

(* A replacement the venue accepted is promoted, or a human is asked by the *)
(* latch: no sequence of crashes, lost answers and restarts leaves the      *)
(* transition stuck once the order exists, provided that the unit does not  *)
(* stay failed (each failed resumption ends the process, and systemd gives  *)
(* up after Burst starts in a window; an operator must then reset it).      *)
AcceptedStopPromoted ==
    []<>~failed =>
        \A s \in Stop :
            (eng.trans.new = s /\ Known(s)) ~> (eng.trans.new # s \/ eng.latch)

(* -- the inductive invariant -------------------------------------------- *)

Late == {"VERIFY_OLD_TERMINAL", "PROMOTION_PENDING", "RECONCILIATION_REQUIRED"}
Proving == {"cancel", "verify", "promote", "retire", "finish"}
Placing == {"place", "submit", "send", "raised", "ambiguous", "confirm"}

(* What a slot says of its own transition, in the checkpoint and in memory. *)
Shape(x) ==
    /\ x.active # 0 => row[x.active] # "NONE"
    /\ x.trans.kind = "NONE" => x.trans = NoTransition
    /\ x.trans.kind # "NONE" => x.trans.prev = x.active
    /\ x.trans.kind = "CANCEL" => /\ x.pos = 0 /\ x.trans.new = 0 /\ x.trans.prev # 0
                                /\ x.trans.phase # "PLACING"
    /\ x.trans.kind = "REPLACE" =>
          /\ x.trans.new # 0 /\ x.trans.new # x.trans.prev
          /\ row[x.trans.new] # "NONE" /\ qty[x.trans.new] = x.pos
          /\ x.trans.phase \in Late => Known(x.trans.new) /\ row[x.trans.new] = "OPEN"

(* The memory of a process is the checkpoint, up to the phase and to the    *)
(* cancellation an exit prepared.                                           *)
Synced ==
    pc # "down" =>
        /\ mem.pos = eng.pos /\ mem.active = eng.active
        /\ \/ mem.trans.kind = eng.trans.kind /\ mem.trans.new = eng.trans.new
              /\ mem.trans.prev = eng.trans.prev
           \/ mem.trans.kind = "CANCEL" /\ eng.trans.kind = "NONE"

(* What each step of the process knows of the transition in hand.           *)
Steps ==
    /\ pc \in {"settle", "protect", "trade", "trailed", "check"} =>
          mem.trans = NoTransition
    /\ pc \in Placing => mem.trans.kind = "REPLACE"
    /\ pc = "confirm" => Known(mem.trans.new)
    /\ pc \in Proving =>
          /\ mem.trans.kind # "NONE"
          /\ mem.trans.kind = "REPLACE" =>
                Known(mem.trans.new) /\ row[mem.trans.new] = "OPEN"
    /\ pc \in {"cancel", "verify"} => mem.trans.prev # 0
    /\ pc \in {"promote", "retire", "finish"} =>
          (mem.trans.prev # 0 => venue[mem.trans.prev] \notin {"flight", "open"})
    /\ pc \in {"check", "trade"} /\ mem.pos > 0 =>
          mem.active # 0 /\ Known(mem.active) /\ qty[mem.active] = mem.pos

(* PLACING, in the checkpoint or in memory, proves that nothing was sent.   *)
Unsent ==
    /\ \A s \in Stop : row[s] = "NONE" => sends[s] = 0 /\ venue[s] = "none"
    /\ eng.trans.phase = "PLACING" => sends[eng.trans.new] = 0
    /\ mem.trans.phase = "PLACING" => mem.trans = eng.trans
    /\ pc = "submit" => mem.trans.phase = "PLACING"
    /\ pc = "send" => /\ mem.trans = eng.trans /\ mem.trans.phase = "SUBMITTING"
                      /\ sends[mem.trans.new] = 0

(* The inductive invariant behind the proofs: checkpoint, memory, journal   *)
(* and venue agree on the transition in hand at every step of the saga.     *)
StopInv ==
    /\ TypeOK /\ Shape(eng) /\ Shape(mem) /\ Synced /\ Steps /\ Unsent
    /\ AtMostOnePlacement /\ NoOrphanStop
====
