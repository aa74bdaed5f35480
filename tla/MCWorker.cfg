SPECIFICATION FairSpec
CONSTANTS
    Job = {j1}
    Host = {h1}
    None = None
    StartTime = 0
    EndTime = 1
    Start <- MCStart
    End <- MCEnd
    Ends = {2}
    Grace = 1
    ClaimTimeout = 1
    MaxParallel = 2
    MaxClaims = 2
    MaxIncidents = 2
    MaxRetries = 1
    MaxEdits = 1
    MaxTime = 2
INVARIANTS SingleLaunch FinishedIsQuiet OrphansAreFlagged
PROPERTIES CancelledStops JobsSettle
