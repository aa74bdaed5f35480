SPECIFICATION Spec
CONSTANTS
    Proc = {p1, p2}
    Txn = {t1, t2}
    None = None
    MaxLogs = 1
    Size <- MCSize
    BackupKeep = 1
    MaxFaults = 0
    MaxReadFaults = 0
    MaxCrashes = 1
    MaxOutages = 1
    MaxResets = 0
SYMMETRY Symmetry
INVARIANTS AuditComplete
