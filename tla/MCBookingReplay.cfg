SPECIFICATION Spec
CONSTANTS
    Uid = {u1}
    Gpu = {g1}
    OpId = {o1}
    None = None
    Slot = 2
    MaxShared = 2
    MaxDuration = 4
    Horizon = 6
    QueueSearch = 4
    Retention = 2
    BlackoutStart = 5
    BlackoutEnd = 7
    Blackouts <- MCBlackouts
    EditLimit = 1
    MaxReservations = 1
    MaxTime = 2
    Drift = 1
    Starts = {2}
    Lengths = {2}
    Requests <- MCRequests
    EditRequests <- MCEditRequests
SYMMETRY Symmetry
INVARIANTS RetryReturnsOriginal
CHECK_DEADLOCK FALSE
