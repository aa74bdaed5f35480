SPECIFICATION Spec
CONSTANTS
    None = None
    Process = {p}
    PerDay = 2
    TopTier = 2
    KeepDays <- MCKeepDays
    Legacy = {1}
    Newer = {0}
    MaxNow = 4
    MaxFailures = 2
    MaxRuns = 2
    MaxEvents = 1
    Missing = Missing
    Foreign = Foreign
    Before = Foreign
    Admins = {a}
    Uid = {1, 2}
    Policy = {1}
    Operations = {"init", "install", "reinstall", "services", "unservices", "uninstall", "policy",
                  "transfer", "unpolicy", "untransfer", "backup", "clear", "restore", "blackout",
                  "maintain", "login-hook", "cluster"}
    MaxOps = 3
    MaxFaults = 1
    MaxWrites = 1
    Exporters = {"x", "y"}
    Superusers = {"x"}
    MaxGenerations = 2
    LastDay = 3
    Since = {2}
    Resolution = {"10m", "1d"}
    BatchDays = 2
    MaxRecords = 2
    Load <- MCLoad
    MaxExports = 3
    MaxMishaps = 1
    Job = {j}
    Home <- MCHome
    Cleaners = {"d"}
    Segment = 2
    Quota = 2
    MaxChunks = 3
    MaxTries = 2
    MaxCleanups = 1
    MaxLogFaults = 2
    Workers = {"w1", "w2"}
    Serves <- MCServes
    Probes = {"q1", "q2"}
    AsksFor <- MCAsksFor
    Attempts = 3
    MaxLaunches = 3
    MaxProbes = 2
    Owner = 1
    Devices = {0, 1}
    Memory = 5
    MemoryReserve = 1
    BusyMemory = 1
    ShareSlots = 2
    Wishes <- MCWishes
    Strangers <- MCStrangers
    Samplings <- MCSamplings
    Sharers = {1, 2}
    Amounts = {2}
    Parallel = 1
    LastTime = 1
    MaxWishes = 2
    Myself = 1
    Cards = {0, 1}
    CardSlots = 2
    Slice = 2
    Closures <- MCClosures
    Horizon = 12
    Reach = 8
    Ledgers <- MCLedgers
    Bookings <- MCBookings
    LastMoment = 2
    MaxElsewhere = 1
    Zooms = {1, 2}
    Columns = 6
    ContextColumns = 1
    QuickTicks = 2
    MaxKeys = 4
    MaxLength = 3
    Asks <- MCAsks
    Edits <- MCEdits
    Tries = {1, 2}
    MaxCalls = 1
INVARIANTS
    HistoryKept
    CountedOnce
    StateExplained
    AllOrNothing
    NothingUntracked
    RecoveryOpen
    LedgerSomewhere
    HistoryAnswered
    NewestOutputKept
    StatusTruthful
    WithinShareNeverWaits
    WrittenAsShown
CHECK_DEADLOCK FALSE
