SPECIFICATION Spec
CONSTANTS
    Proc = {p1, p2}
    Txn = {t1, t2}
    None = None
    MaxLogs = 2
    Size <- MCSize
    BackupKeep = 1
    MaxFaults = 1
    MaxReadFaults = 0
    MaxCrashes = 1
    MaxOutages = 1
    MaxResets = 0
SYMMETRY Symmetry
INVARIANTS RejectedHasNoEffect AuditOnce AuditCompleteWhilePowered
PROPERTIES ImplementsAtomicLedger
