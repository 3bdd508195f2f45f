------------------------------- MODULE MCTools -------------------------------
(* Small instances of the tools for TLC.  Deployment: a release of the first *)
(* schema, a sibling of the same schema and one that needs a migration.      *)
EXTENDS Tools, TLC

MCReleases == {"r1", "r2", "r3"}
MCSchemaOf == [r1 |-> 1, r2 |-> 1, r3 |-> 2]
MCUnits == {"engine", "timers", "dashboard"}
MCScopes == {"trading", "shadow"}
MCOrder == <<"trading", "shadow">>
MCOptional == {"shadow"}
MCWidths == {2}
MCInterval == [a |-> {1, 2}, b |-> {2, 3}]
Symmetry == Permutations(Run)
=============================================================================
