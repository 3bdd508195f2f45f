---- MODULE ExternalOrderInv ----
(***************************************************************************)
(* The inductive invariant behind the safety of ExternalOrder.  It holds    *)
(* for any number of processes, crashes and store faults: it never speaks   *)
(* of the memory of a process, only of the journal, the venue and the       *)
(* submission in hand.                                                      *)
(***************************************************************************)
EXTENDS ExternalOrder

(* Where a process has a submission in hand, before its observation. *)
InHand == {"reserved", "submitting", "waiting", "replied", "responded"}

Sending == {"waiting", "replied", "responded"}

(* What an answer claims of an order is what the venue did with it. *)
Truthful(i, r) ==
    /\ r.outcome = "FILLED_COMMITMENT" => venue[i] = "filled" /\ r.qty = fill[i]
    /\ r.outcome = "DETERMINISTIC_IOC_NO_MATCH" => venue[i] = "noMatch"

(* The row of the submission in hand follows the process. *)
RowFollowsProcess ==
    \A p \in Instance :
        /\ pc[p] = "reserved" => order[cur[p]].local = "INTENT_CREATED"
        /\ pc[p] = "submitting" => order[cur[p]].local = "SUBMITTING" /\ sent[cur[p]] = 0
        /\ pc[p] \in Sending => order[cur[p]].local = "SUBMITTING" /\ sent[cur[p]] = 1
        /\ pc[p] \in {"replied", "responded"} => Truthful(cur[p], reply[p])

(* A row is closed in one of four ways, and only closed rows say so. *)
ClosedStatus ==
    \A i \in Intent :
        (order[i].local = "TERMINAL") <=>
            (order[i].status \in {"FILLED", "PARTIAL", "CANCELED", "RECOVERED_ABORTED"})

(* The venue knows exactly the orders sent, each once, and the journal never*)
(* takes a sent order for one that was not.                                 *)
SentOnce ==
    \A i \in Intent :
        /\ sent[i] \in {0, 1}
        /\ venue[i] = "none" <=> sent[i] = 0
        /\ sent[i] = 1 => /\ order[i].local \notin {"NONE", "INTENT_CREATED"}
                          /\ order[i].status # "RECOVERED_ABORTED"

(* From the venue's execution to the application, each record rests on the  *)
(* previous one.                                                            *)
EvidenceChain ==
    \A i \in Intent :
        /\ fill[i] > 0 <=> venue[i] = "filled"
        /\ \A r \in responses[i] : Truthful(i, r)
        /\ settlement[i] > 0 => settlement[i] = fill[i]
        /\ i \in applied => settlement[i] > 0

(* A closed row's status is what happened. *)
ClosedTruthfully ==
    \A i \in Intent :
        /\ order[i].status = "CANCELED" => venue[i] = "noMatch"
        /\ order[i].status \in {"FILLED", "PARTIAL"} => i \in applied

SafetyInv ==
    /\ OneOwner
    /\ RowFollowsProcess
    /\ ClosedStatus
    /\ SentOnce
    /\ EvidenceChain
    /\ ClosedTruthfully

(***************************************************************************)
(* The book.  From here on the memory of a process counts: as long as the   *)
(* loop swallowed no store fault, the process that owns the journal holds   *)
(* the durable position in its memory wherever it may save it.              *)
(***************************************************************************)

InPass == {"reconcile", "settle", "apply", "finalize"}

(* A pass belongs to the startup recovery or to the loop. *)
OfLoop(p) == pc[p] \in InPass => back[p] # "recover"

(* Where the memory of p may still be saved as it is. *)
Current(p) == pc[p] \notin {"down", "built", "recover", "finalize"} /\ OfLoop(p)

MemoryFollows(p) ==
    /\ pc[p] \in InHand \cup {"record"} => back[p] # "recover"
    /\ Current(p) => mem[p].qty = engine.qty

(* Only an engine without a latch is at work. *)
LatchStops(p) ==
    pc[p] \notin {"down", "built"} => ~engine.latch /\ ~mem[p].latch

(* The pass of the loop applies its order, and then can only finalise it. *)
PassAdvances(p) ==
    /\ pc[p] \in InPass \ {"finalize"} /\ OfLoop(p) => cur[p] \notin applied
    /\ pc[p] = "finalize" /\ OfLoop(p) => CanFinalize(cur[p])

LoopInv == \A p \in Instance : MemoryFollows(p) /\ LatchStops(p) /\ PassAdvances(p)

(* What a row says of its application, and its plan of its sequence; an     *)
(* entry is planned from a flat position.                                   *)
RowsAgree ==
    \A i \in Intent :
        /\ i \in applied => order[i].local \in {"PENDING_RECONCILIATION", "TERMINAL"}
        /\ order[i].local # "NONE" =>
              plan[i].seq = i.seq /\ (i.kind = "ENTER" => plan[i].qty = 0)

(* The executed lots of a kind the portfolio does not account for yet. *)
Outstanding(kind) ==
    {u \in Intent \X (1 .. Lot) :
        u[1].kind = kind /\ u[1] \notin applied /\ u[2] <= fill[u[1]]}

(* The durable position with what is outstanding is the venue's. *)
BookBalances ==
    engine.qty + Cardinality(Outstanding("ENTER")) = net + Cardinality(Outstanding("EXIT"))

BookInv ==
    /\ RowsAgree
    /\ faults = 0 => LoopInv /\ BookBalances

(* With a single process the loop goes round with nothing unresolved but    *)
(* the order in its hand.                                                   *)
HandHolds(p) ==
    /\ pc[p] \in {"built", "prepare", "record"} \cup CyclePhase
           => \A i \in Intent : ~Unresolved(i)
    /\ pc[p] \in InHand \cup InPass /\ OfLoop(p)
           => \A i \in Intent : Unresolved(i) => i = cur[p]

SoleInv == faults = 0 => SoleExposedOrder /\ \A p \in Instance : HandHolds(p)
====
