---- MODULE FinancialTransition ----
(***************************************************************************)
(* What the order path promises, without its protocol: a transition of the  *)
(* portfolio is executed by the venue at most once, the portfolio accounts  *)
(* each executed quantity exactly once, and a transition declared void has  *)
(* not been executed and never will be.                                     *)
(***************************************************************************)
EXTENDS OrderTypes

VARIABLES
    executed,   \* [Intent -> Quantity]: what the venue did
    accounted,  \* intents whose effect is in the portfolio
    void,       \* intents declared without effect
    position    \* the portfolio's position

absVars == <<executed, accounted, void, position>>

Init ==
    /\ executed = [i \in Intent |-> 0]
    /\ accounted = {}
    /\ void = {}
    /\ position = 0

(* The venue executes the transition, wholly or in part. *)
Execute(i) ==
    /\ executed[i] = 0
    /\ i \notin void
    /\ \E q \in Quantity \ {0} : executed' = [executed EXCEPT ![i] = q]
    /\ UNCHANGED <<accounted, void, position>>

(* The portfolio takes the executed quantity in, once. *)
Account(i) ==
    /\ executed[i] > 0
    /\ i \notin accounted
    /\ accounted' = accounted \cup {i}
    /\ position' = IF i.kind = "ENTER" THEN position + executed[i]
                                       ELSE position - executed[i]
    /\ UNCHANGED <<executed, void>>

(* The transition is closed without effect. *)
Void(i) ==
    /\ executed[i] = 0
    /\ i \notin void
    /\ void' = void \cup {i}
    /\ UNCHANGED <<executed, accounted, position>>

Next == \E i \in Intent : Execute(i) \/ Account(i) \/ Void(i)

Spec == Init /\ [][Next]_absVars
====
