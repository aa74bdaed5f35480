SPECIFICATION FairSpec
CONSTANTS
    Proc = {p1, p2}
    Txn = {t1}
    None = None
    MaxLogs = 1
    Size <- MCSize
    BackupKeep = 1
    MaxFaults = 1
    MaxReadFaults = 1
    MaxCrashes = 1
    MaxOutages = 0
    MaxResets = 1
INVARIANTS TypeOK CommittedSurvives FreshLoad ResetErases
PROPERTIES CallsReturn
