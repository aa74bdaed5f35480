SPECIFICATION Spec
CONSTANTS
    Client = {c1, c2}
    Uid = {u1, root}
    Root = root
    Other = u1
    UidOf <- MCUidOf
    OpId = {o1}
    None = None
    Transports = {"local", "broker"}
    MaxSlots = 1
    MaxBacklog = 2
    MaxTries = 2
    MaxAnnouncements = 1
    MaxCalls = 3
    MaxIncidents = 1
    MaxRes = 3
SYMMETRY Symmetry
INVARIANTS SlotsBalance NothingLost OncePerOperation GivesUpWhenOvertaken LocalSpecsKept
PROPERTIES ArchivedIsFinal
CHECK_DEADLOCK FALSE
