SPECIFICATION ToolsSpec
CONSTANTS
    Releases <- MCReleases
    First = "r1"
    SchemaOf <- MCSchemaOf
    Units <- MCUnits
    MaxDeploy = 3
    MaxWrite = 2
    MaxFault = 2
    Scopes <- MCScopes
    Order <- MCOrder
    Optional <- MCOptional
    Widths <- MCWidths
    RecentCount = 1
    BucketCount = 1
    RestoreWrite = 1
    MaxSet = 2
    MaxRestore = 2
    RestoreFault = 1
    Process = {m1, m2, trend, carry}
    Migrating = {m1, m2}
    Existing = {0, 4, 7, 10, 13, 14}
    Legacy = {old}
    Own = {new}
    Run = {r1, r2}
    Candidate = {1, 2}
    LastFold = 2
    Score = {1, 2}
    Budgets = {3, 4}
    SearchFault = 1
    Operator = {o1}
    Dataset = {"a", "b"}
    Interval <- MCInterval
    Holdout = {h1}
    Terms = {t1}
    Result = {x, y}
    Policy = {f, g}
    Nothing = Nothing
    MaxCall = 3
    Event = {1}
    Expiry = 2
    Age = 1
    DayLength = 2
    Rescan = 1
    MaxTime = 3
    MaxRow = 3
    MaxDamage = 1
    MaxBooking = 3
    MaxCrash = 1
INVARIANTS NoWriteLost RunningCodeFits FencedUntilReconciled OpensWhole SearchIsJust EvidenceKept CutoverLosesNothing
PROPERTY SealsHold
SYMMETRY Symmetry
CHECK_DEADLOCK FALSE
