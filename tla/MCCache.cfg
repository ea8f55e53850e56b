SPECIFICATION CacheSpec
CONSTANTS
    Keys = {k1}
    Threads = {t1, t2}
    Entries = {e1, e2}
    Nobody = Nobody
    NoEntry = NoEntry
    None = None
    NoLimit = NoLimit
    MaxAges = {1, NoLimit}
    DefaultCooldown = 2
    MaxTime = 2
    Modes = {"live", "replay"}
    Files = {f1, f2}
    Absent = Absent
    Unset = Unset
    Scrap = Scrap
    MaxRuns = 3
CHECK_DEADLOCK FALSE
INVARIANTS
    SingleFlight
    ReusedIsRecent
    PayloadMatchesStamp
    NoLockLeak
    AllOrNone
    NothingLost
    LeavesNoCopies
PROPERTIES
    OneAttemptPerWindow
    NoLostLock
    ImplementsMutex
    Ends
