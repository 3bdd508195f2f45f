------------------------------- MODULE Sealing -------------------------------
(****************************************************************************)
(* What the governance store seals (governance_store.py): intervals of data *)
(* seen or reserved blind, holdouts evaluated once, and a policy version    *)
(* approved then frozen (quant_policy.py).  Every operation of the store is *)
(* one transaction; the evaluator of a holdout and the gap between the two  *)
(* transactions of a freeze are outside.                                    *)
(****************************************************************************)
EXTENDS Naturals, Sequences

CONSTANTS
    Process,        \* evaluators of holdouts
    Operator,       \* who approves and freezes policies
    Dataset,
    Interval,       \* of a dataset: the days it covers
    Holdout,
    Terms,          \* the other fields of a holdout's identity
    Result,
    Policy,         \* fingerprints a policy version may be given
    None,           \* no dataset, no result, no seal
    MaxCall,        \* bound: evaluations begun
    MaxCrash        \* bound: processes killed between two transactions

SealingAssumption ==
    /\ Interval \in [Dataset -> SUBSET Nat]
    /\ None \notin Dataset \cup Result \cup Policy
    /\ MaxCall \in Nat /\ MaxCrash \in Nat

VARIABLES
    usage,      \* of a dataset: "none", "SEEN" or "BLIND_RESERVED"
    holdout,    \* of a holdout: its row
    call,       \* of a process: the evaluation it is at
    shown,      \* what evaluate_holdout ever returned
    chain,      \* the policy's transitions, with the fingerprint of each
    seal,       \* its sealed fingerprint
    freezing,   \* of an operator: the fingerprint whose transition is committed
    calls, crashes

datasets == <<usage>>
holdouts == <<holdout, call, shown, calls>>
policies == <<chain, seal, freezing>>
vars == <<usage, holdout, call, shown, chain, seal, freezing, calls, crashes>>

Identity == [dataset : Dataset \cup {None}, terms : Terms]
NoRow == [status |-> "none", identity |-> [dataset |-> None, terms |-> None], result |-> None]
NoCall == [at |-> "idle", holdout |-> None, result |-> None]

-----------------------------------------------------------------------------
(* Datasets. *)

Overlaps(d, e) == Interval[d] \cap Interval[e] # {}

(* register_seen_dataset looks at the row of this dataset only. *)
RegisterSeen(d) ==
    /\ usage[d] = "none"
    /\ usage' = [usage EXCEPT ![d] = "SEEN"]
    /\ UNCHANGED <<holdouts, policies, crashes>>

ReserveBlind(d) ==
    /\ \A e \in Dataset : usage[e] # "none" => ~Overlaps(d, e)
    /\ usage' = [usage EXCEPT ![d] = "BLIND_RESERVED"]
    /\ UNCHANGED <<holdouts, policies, crashes>>

-----------------------------------------------------------------------------
(* Holdouts. *)

(* The identity is unique; a holdout without a dataset is not checked. *)
ReserveHoldout(h, id) ==
    /\ holdout[h] = NoRow
    /\ \A g \in Holdout : holdout[g] # NoRow => holdout[g].identity # id
    /\ id.dataset # None => usage[id.dataset] = "BLIND_RESERVED"
    /\ holdout' = [holdout EXCEPT ![h] = [NoRow EXCEPT !.status = "BLIND_RESERVED", !.identity = id]]
    /\ UNCHANGED <<datasets, call, shown, calls, policies, crashes>>

(* begin_holdout_evaluation: a spent one is read, one that is pending is     *)
(* taken up again, whoever left it.                                         *)
BeginEvaluation(p, h) ==
    /\ call[p] = NoCall
    /\ calls < MaxCall /\ calls' = calls + 1
    /\ \/ /\ holdout[h].status \in {"BLIND_RESERVED", "PENDING"}
          /\ holdout' = [holdout EXCEPT ![h].status = "PENDING"]
          /\ call' = [call EXCEPT ![p] = [NoCall EXCEPT !.at = "evaluate", !.holdout = h]]
       \/ /\ holdout[h].status = "SPENT"
          /\ call' = [call EXCEPT ![p] = [NoCall EXCEPT !.at = "read", !.holdout = h]]
          /\ UNCHANGED holdout
    /\ UNCHANGED <<datasets, shown, policies, crashes>>

(* An evaluator that raises leaves the holdout pending. *)
Evaluate(p) ==
    /\ call[p].at = "evaluate"
    /\ \/ \E r \in Result : call' = [call EXCEPT ![p].at = "commit", ![p].result = r]
       \/ call' = [call EXCEPT ![p] = NoCall]
    /\ UNCHANGED <<datasets, holdout, shown, calls, policies, crashes>>

(* Mutated form: only an invalidated holdout is not available. *)
AvailableIfValid(h) == holdout[h].status # "INVALIDATED"

Available(h) == holdout[h].status = "PENDING"

(* The result is returned once it is committed, and to no one else. *)
CommitResult(p) ==
    /\ call[p].at = "commit"
    /\ LET h == call[p].holdout IN
        IF Available(h)
        THEN /\ holdout' = [holdout EXCEPT ![h].status = "SPENT", ![h].result = call[p].result]
             /\ shown' = shown \cup {<<h, call[p].result>>}
        ELSE UNCHANGED <<holdout, shown>>
    /\ call' = [call EXCEPT ![p] = NoCall]
    /\ UNCHANGED <<datasets, calls, policies, crashes>>

ReadResult(p) ==
    /\ call[p].at = "read"
    /\ shown' = shown \cup {<<call[p].holdout, holdout[call[p].holdout].result>>}
    /\ call' = [call EXCEPT ![p] = NoCall]
    /\ UNCHANGED <<datasets, holdout, calls, policies, crashes>>

InvalidateHoldout(h) ==
    /\ holdout[h].status \notin {"none", "SPENT"}
    /\ holdout' = [holdout EXCEPT ![h].status = "INVALIDATED"]
    /\ UNCHANGED <<datasets, call, shown, calls, policies, crashes>>

-----------------------------------------------------------------------------
(* The policy. *)

Last == chain[Len(chain)]
Entry(state, f) == [state |-> state, fingerprint |-> f]

(* record_policy_transition looks at the state, not at what was approved. *)
MayFreeze == chain # <<>> /\ Last.state = "APPROVED"

Approve(f) ==
    /\ chain = <<>>
    /\ chain' = Append(chain, Entry("APPROVED", f))
    /\ UNCHANGED <<datasets, holdouts, seal, freezing, crashes>>

FreezeTransition(o, f) ==
    /\ freezing[o] = None
    /\ MayFreeze
    /\ chain' = Append(chain, Entry("FROZEN", f))
    /\ freezing' = [freezing EXCEPT ![o] = f]
    /\ UNCHANGED <<datasets, holdouts, seal, crashes>>

(* record_policy_fingerprint refuses a chain that is not complete, or       *)
(* another fingerprint.                                                     *)
FreezeSeal(o) ==
    /\ freezing[o] # None
    /\ seal' = IF Len(chain) = 2 /\ seal = None THEN freezing[o] ELSE seal
    /\ freezing' = [freezing EXCEPT ![o] = None]
    /\ UNCHANGED <<datasets, holdouts, chain, crashes>>

(* verify_policy_freeze *)
Verified(f) == chain = <<Entry("APPROVED", f), Entry("FROZEN", f)>> /\ seal = f

-----------------------------------------------------------------------------

(* A process dies between two transactions. *)
Crash ==
    /\ crashes < MaxCrash /\ crashes' = crashes + 1
    /\ \/ \E p \in Process : call[p] # NoCall /\ call' = [call EXCEPT ![p] = NoCall]
                             /\ UNCHANGED freezing
       \/ \E o \in Operator : freezing[o] # None /\ freezing' = [freezing EXCEPT ![o] = None]
                              /\ UNCHANGED call
    /\ UNCHANGED <<datasets, holdout, shown, calls, chain, seal>>

Init ==
    /\ usage = [d \in Dataset |-> "none"]
    /\ holdout = [h \in Holdout |-> NoRow]
    /\ call = [p \in Process |-> NoCall]
    /\ shown = {}
    /\ chain = <<>> /\ seal = None /\ freezing = [o \in Operator |-> None]
    /\ calls = 0 /\ crashes = 0

Next ==
    \/ \E d \in Dataset : RegisterSeen(d) \/ ReserveBlind(d)
    \/ \E h \in Holdout :
          \/ \E id \in Identity : ReserveHoldout(h, id)
          \/ \E p \in Process : BeginEvaluation(p, h)
          \/ InvalidateHoldout(h)
    \/ \E p \in Process : Evaluate(p) \/ CommitResult(p) \/ ReadResult(p)
    \/ \E f \in Policy : Approve(f) \/ \E o \in Operator : FreezeTransition(o, f)
    \/ \E o \in Operator : FreezeSeal(o)
    \/ Crash

Spec == Init /\ [][Next]_vars

-----------------------------------------------------------------------------

(* evaluate_holdout: whoever evaluates a holdout, at the same time, after a *)
(* crash or again, every result ever returned is the one it was spent with. *)
ShownIsKept ==
    \A x \in shown : holdout[x[1]].status = "SPENT" /\ holdout[x[1]].result = x[2]

(* evaluate_holdout and freeze: what was shown stays what is kept, and a    *)
(* policy version that verified once verifies for good, with that           *)
(* fingerprint and no other.                                                *)
SealsHold ==
    [][/\ ShownIsKept'
       /\ \A f \in Policy :
             Verified(f) => Verified(f)' /\ \A g \in Policy \ {f} : ~Verified(g)]_vars

=============================================================================
