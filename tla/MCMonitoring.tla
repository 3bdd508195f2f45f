----------------------------- MODULE MCMonitoring -----------------------------
(* Instance of Monitoring for TLC. *)
EXTENDS Monitoring

MCConditions == <<"reconciliation", "slippage">>
MCChecks == <<"trend", "carry">>

(* Every answer good, or one domain degraded. *)
MCEvidence ==
    LET good == [x \in Domain |-> "PASS"]
    IN  {good} \cup {[good EXCEPT ![x] = s] : x \in Domain, s \in Verdict}

=============================================================================
