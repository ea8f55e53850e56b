SPECIFICATION CacheSpec
CONSTANTS
    Keys = {k1}
    Threads = {t1}
    Entries = {e1}
    Nobody = Nobody
    NoEntry = NoEntry
    None = None
    NoLimit = NoLimit
    MaxAges = {NoLimit}
    DefaultCooldown = 1
    MaxTime = 1
    Modes = {"replay"}
    Files = {f1}
    Absent = Absent
    Unset = Unset
    Scrap = Scrap
    MaxRuns = 1
CHECK_DEADLOCK FALSE
PROPERTIES
    FrozenStoreUntouched
