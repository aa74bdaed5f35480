SPECIFICATION Spec
CONSTANTS
    Uid = {u1}
    Gpu = {g1}
    OpId = {}
    None = None
    Slot = 2
    MaxShared = 2
    MaxDuration = 4
    Horizon = 6
    QueueSearch = 4
    Retention = 2
    BlackoutStart = 5
    BlackoutEnd = 7
    Blackouts <- MCBlackouts
    EditLimit = 1
    MaxReservations = 3
    MaxTime = 3
    Drift = 1
    Starts = {0, 2}
    Lengths = {2, 4}
    Requests <- MCRequests
    EditRequests <- MCEditRequests
SYMMETRY Symmetry
INVARIANTS ExclusiveAlone SharedFits QueueFindsEarliest BlackoutsStayClear
PROPERTY ElapsedIsImmutable
CHECK_DEADLOCK FALSE
