SPECIFICATION FairSpec
CONSTANTS
    Job = {j1}
    Host = {h1}
    None = None
    StartTime = 0
    EndTime = 2
    Start <- MCStart
    End <- MCEnd
    Ends = {1}
    Grace = 1
    ClaimTimeout = 1
    MaxParallel = 2
    MaxClaims = 2
    MaxIncidents = 0
    MaxRetries = 1
    MaxEdits = 1
    MaxTime = 3
PROPERTIES KilledAtEnd
