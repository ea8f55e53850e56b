SPECIFICATION GuardsSpec
CONSTANTS
    Threads = {t1, t2}
    Queries = {q1, q2}
    MinInterval = 2
    LiveTTL = 2
    LockWait = 0
    None = None
    Torn = Torn
    MaxTime = 4
    Modes = {"live"}
    Askers = {t1, t2}
    Clients = {c1}
    HourLimits = {2}
    DayLimits = {3}
    ClientLimit = 2
    Keep = 3
    Hour = 2
    Day = 3
    MaxTurns = 2
    Lag = 1
    MaxInstant = 0
    MaxFaults = 1
    MaxCalls = 4
    Students = {amy, ben}
    Requests = {q1, q2}
    CookieLife = 2
    TokenLife = 2
    Skew = 1
    CacheLimit = 1
    EvictCount = 1
    MaxSignIns = 0
    MaxHour = 0
    Absent = Absent
CHECK_DEADLOCK FALSE
PROPERTIES
    RequestsSpaced
