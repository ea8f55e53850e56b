SPECIFICATION GuardsSpec
CONSTANTS
    Threads = {t1, t2}
    Queries = {q1, q2}
    MinInterval = 2
    LiveTTL = 1
    LockWait = 1
    None = None
    Torn = Torn
    MaxTime = 3
    Modes = {"live", "replay", "flipped"}
    Askers = {a1, a2}
    Clients = {c1}
    HourLimits = {1, 3}
    DayLimits = {2, 3}
    ClientLimit = 2
    Keep = 2
    Hour = 2
    Day = 3
    MaxTurns = 2
    Lag = 1
    MaxInstant = 3
    MaxFaults = 1
    MaxCalls = 3
    Students = {amy, ben}
    Requests = {q1, q2}
    CookieLife = 2
    TokenLife = 2
    Skew = 1
    CacheLimit = 1
    EvictCount = 1
    MaxSignIns = 2
    MaxHour = 2
    Absent = Absent
SYMMETRY Symmetry
CHECK_DEADLOCK FALSE
INVARIANTS
    LiveIsRecent
    TurnedAwayOnlyIfRefused
    TokenIsTheStudents
    WithinLimits
    LedgerIsComplete
PROPERTIES
    FullSleepsSpace
    FixturesUntouched
