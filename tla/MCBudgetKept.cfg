SPECIFICATION GuardsSpec
CONSTANTS
    Threads = {t1}
    Queries = {q1, q2}
    MinInterval = 2
    LiveTTL = 2
    LockWait = 0
    None = None
    Torn = Torn
    MaxTime = 0
    Modes = {"live"}
    Askers = {t1}
    Clients = {c1}
    HourLimits = {3}
    DayLimits = {4}
    ClientLimit = 3
    Keep = 2
    Hour = 2
    Day = 3
    MaxTurns = 3
    Lag = 1
    MaxInstant = 3
    MaxFaults = 0
    MaxCalls = 4
    Students = {amy, ben}
    Requests = {q1, q2}
    CookieLife = 2
    TokenLife = 2
    Skew = 1
    CacheLimit = 1
    EvictCount = 1
    MaxSignIns = 0
    MaxHour = 0
    Absent = Absent
CHECK_DEADLOCK FALSE
INVARIANTS
    QuotaIsGuarded
