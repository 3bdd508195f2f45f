----------------------------- MODULE WalkForward -----------------------------
(****************************************************************************)
(* The durable trials of a quantitative search (governance_store.py) and    *)
(* the walk-forward runs that share them (governed_walkforward.py).  A run  *)
(* goes over the folds, tries every candidate in each and selects the best; *)
(* a trial is reserved in the store before the evaluator is called and its  *)
(* result replayed afterwards.  Several runs of one frozen experiment       *)
(* overlap, die and start over.  The tables nothing reads back (attempts,   *)
(* chained events) are left out.                                            *)
(****************************************************************************)
EXTENDS Naturals, FiniteSets

CONSTANTS
    Run,
    Candidate,  \* parameter fingerprints, which are ordered; the caller lists them so
    LastFold,
    Score,      \* finite selection scores
    Budgets,    \* the values maximum_trial_budget may have
    MaxFault    \* bound: runs killed and statements the store refuses, together

WalkForwardAssumption ==
    /\ Candidate \subseteq Nat /\ Score \subseteq Nat \ {0} /\ Budgets \subseteq Nat
    /\ LastFold \in Nat \ {0} /\ MaxFault \in Nat

VARIABLES
    budget,     \* of the experiment
    trial,      \* of a candidate in a fold: its row
    run,        \* of a run: where it is and what it holds in memory
    selected,   \* of a run and a fold: what it selected, with what was known then
    evaluated,  \* history: how often the evaluator was called for a trial
    faults

store == <<budget, trial>>
vars == <<budget, trial, run, selected, evaluated, faults>>

Fold == 1 .. LastFold
Trials == Candidate \X Fold
NoRow == [status |-> "none", score |-> 0]
Row(status, score) == [status |-> status, score |-> score]

Reserved == {t \in Trials : trial[t] # NoRow}
SucceededIn(f) == {c \in Candidate : trial[<<c, f>>].status = "SUCCEEDED"}

NoSelection == [score |-> 0, candidate |-> 0, known |-> {}, clean |-> FALSE]

-----------------------------------------------------------------------------
(* A run in memory.  known and clean are history: the trials that had       *)
(* succeeded when the fold began, and whether the store answered since.     *)

Idle == [at |-> "idle", fold |-> 1, left |-> {}, outcome |-> 0, ranked |-> {},
         recorded |-> 0, known |-> {}, clean |-> TRUE]

InFold(m, f) == [m EXCEPT !.at = "reserve", !.fold = f, !.left = Candidate, !.ranked = {},
                          !.known = SucceededIn(f)]

At(r, step) == run[r].at = step
Current(m) == CHOOSE c \in m.left : \A d \in m.left : c <= d
Now(r) == <<Current(run[r]), run[r].fold>>
Memory(r, m) == run' = [run EXCEPT ![r] = m]
Goto(r, step) == Memory(r, [run[r] EXCEPT !.at = step])

(* TrialRegistry.record_trial, which counts every attempt: past the budget  *)
(* it raises again from the handler, and the run ends.                      *)
Noted(m, more) ==
    IF m.recorded >= budget
    THEN [Idle EXCEPT !.at = "aborted"]
    ELSE [m EXCEPT !.at = "reserve", !.recorded = @ + 1, !.ranked = @ \cup more,
                   !.left = @ \ {Current(m)}, !.outcome = 0]

Rank(r, score) == Memory(r, Noted(run[r], {<<score, Current(run[r])>>}))

(* Whatever is raised for a candidate drops it from the fold. *)
Drop(r) == Memory(r, Noted(run[r], {}))

-----------------------------------------------------------------------------
(* governed_walk_forward *)

Begin(r) ==
    /\ At(r, "idle")
    /\ Memory(r, InFold(Idle, 1))
    /\ UNCHANGED <<store, selected, evaluated, faults>>

(* The order of (score, fingerprint). *)
Above(x, y) == x[1] > y[1] \/ (x[1] = y[1] /\ x[2] >= y[2])

Select(r) ==
    /\ At(r, "reserve") /\ run[r].left = {} /\ run[r].ranked # {}
    /\ \E best \in run[r].ranked :
          /\ \A x \in run[r].ranked : Above(best, x)
          /\ selected' = [selected EXCEPT ![r][run[r].fold] =
                [score |-> best[1], candidate |-> best[2],
                 known |-> run[r].known, clean |-> run[r].clean]]
    /\ IF run[r].fold = LastFold
       THEN Memory(r, [Idle EXCEPT !.at = "done"])
       ELSE Memory(r, InFold(run[r], run[r].fold + 1))
    /\ UNCHANGED <<store, evaluated, faults>>

NothingRanked(r) ==
    /\ At(r, "reserve") /\ run[r].left = {} /\ run[r].ranked = {}
    /\ Memory(r, [Idle EXCEPT !.at = "aborted"])
    /\ UNCHANGED <<store, selected, evaluated, faults>>

-----------------------------------------------------------------------------
(* execute_trial: every step of the store is a transaction. *)

Trying(r) == At(r, "reserve") /\ run[r].left # {}

Exhausted == Cardinality(Reserved) >= budget

Reserve(r) ==
    /\ Trying(r) /\ Now(r) \notin Reserved /\ ~Exhausted
    /\ trial' = [trial EXCEPT ![Now(r)] = Row("RESERVED", 0)]
    /\ Goto(r, "start")
    /\ UNCHANGED <<budget, selected, evaluated, faults>>

RefuseBudget(r) ==
    /\ Trying(r) /\ Now(r) \notin Reserved /\ Exhausted
    /\ Drop(r)
    /\ UNCHANGED <<store, selected, evaluated, faults>>

(* DuplicateTrial, then the request of a reproduction. *)
Reproduce(r) ==
    /\ Trying(r) /\ Now(r) \in Reserved
    /\ Goto(r, "replay")
    /\ UNCHANGED <<store, selected, evaluated, faults>>

(* Mutated form: a trial without a result is taken over. *)
ReplayOrResume(r) ==
    /\ At(r, "replay")
    /\ CASE trial[Now(r)].status = "SUCCEEDED" -> Rank(r, trial[Now(r)].score)
         [] trial[Now(r)].status = "FAILED" -> Drop(r)
         [] OTHER -> Goto(r, "evaluate")
    /\ UNCHANGED <<store, selected, evaluated, faults>>

(* Mutated form: a duplicate is an error like the others. *)
DropDuplicate(r) ==
    /\ At(r, "replay")
    /\ Drop(r)
    /\ UNCHANGED <<store, selected, evaluated, faults>>

(* Only a success is replayed; a trial that failed, or whose run died or is *)
(* still at it, is an error.                                                *)
Replay(r) ==
    /\ At(r, "replay")
    /\ IF trial[Now(r)].status = "SUCCEEDED" THEN Rank(r, trial[Now(r)].score) ELSE Drop(r)
    /\ UNCHANGED <<store, selected, evaluated, faults>>

Start(r) ==
    /\ At(r, "start")
    /\ trial' = [trial EXCEPT ![Now(r)].status = "RUNNING"]
    /\ Goto(r, "evaluate")
    /\ UNCHANGED <<budget, selected, evaluated, faults>>

(* No score: the evaluator raised, or returned none that is finite. *)
Evaluate(r) ==
    /\ At(r, "evaluate")
    /\ evaluated' = [evaluated EXCEPT ![Now(r)] = @ + 1]
    /\ \E result \in Score \cup {0} :
          Memory(r, [run[r] EXCEPT !.at = "finish", !.outcome = result])
    /\ UNCHANGED <<store, selected, faults>>

Finish(r) ==
    /\ At(r, "finish")
    /\ trial[Now(r)].status \in {"RESERVED", "RUNNING"}
    /\ IF run[r].outcome = 0
       THEN trial' = [trial EXCEPT ![Now(r)].status = "FAILED"] /\ Drop(r)
       ELSE trial' = [trial EXCEPT ![Now(r)] = Row("SUCCEEDED", run[r].outcome)]
            /\ Rank(r, run[r].outcome)
    /\ UNCHANGED <<budget, selected, evaluated, faults>>

(* A transaction raises (the database stays locked): the candidate is       *)
(* dropped like one that failed, and its row stays as it is.                *)
StoreRaises(r) ==
    /\ Trying(r) \/ run[r].at \in {"start", "finish", "replay"}
    /\ faults < MaxFault /\ faults' = faults + 1
    /\ Memory(r, Noted([run[r] EXCEPT !.clean = FALSE], {}))
    /\ UNCHANGED <<store, selected, evaluated>>

(* A run that died or ended can be started again; what it had selected was  *)
(* never returned.                                                          *)
Crash(r) ==
    /\ run[r].at \notin {"idle", "done"}
    /\ faults < MaxFault /\ faults' = faults + 1
    /\ Memory(r, Idle)
    /\ selected' = [selected EXCEPT ![r] = [f \in Fold |-> NoSelection]]
    /\ UNCHANGED <<store, evaluated>>

-----------------------------------------------------------------------------

Init ==
    /\ budget \in Budgets
    /\ trial = [t \in Trials |-> NoRow]
    /\ run = [r \in Run |-> Idle]
    /\ selected = [r \in Run |-> [f \in Fold |-> NoSelection]]
    /\ evaluated = [t \in Trials |-> 0]
    /\ faults = 0

Next ==
    \E r \in Run :
        \/ Begin(r) \/ Select(r) \/ NothingRanked(r)
        \/ Reserve(r) \/ RefuseBudget(r) \/ Reproduce(r) \/ Replay(r)
        \/ Start(r) \/ Evaluate(r) \/ Finish(r) \/ StoreRaises(r) \/ Crash(r)

Spec == Init /\ [][Next]_vars

-----------------------------------------------------------------------------

(* execute_trial: the evaluator sees a candidate of a fold once at most,     *)
(* and the experiment never has more trials than its budget, whatever runs   *)
(* overlap, die in the middle of a trial or start over.                      *)
EvaluatedOnce ==
    /\ \A t \in Trials : evaluated[t] <= 1
    /\ Cardinality(Reserved) <= budget

(* governed_walk_forward: what a run selects has the score of the durable    *)
(* result, and no candidate whose trial had succeeded before the fold began  *)
(* ranks above it, unless the store refused a statement of that run.         *)
SelectionIsJust ==
    \A r \in Run, f \in Fold :
        LET s == selected[r][f] IN
        s # NoSelection =>
            /\ trial[<<s.candidate, f>>] = Row("SUCCEEDED", s.score)
            /\ s.clean => \A c \in s.known :
                  Above(<<s.score, s.candidate>>, <<trial[<<c, f>>].score, c>>)

(* Both: the registry never pays for a trial twice nor lets one be chosen    *)
(* over a better one it knew.                                               *)
SearchIsJust == EvaluatedOnce /\ SelectionIsJust

=============================================================================
