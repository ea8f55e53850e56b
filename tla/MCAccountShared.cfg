SPECIFICATION AccountsSpec
CONSTANTS
    Users = {alice, bob}
    NoUser = NoUser
    Tabs = {p1, p2}
    NoTab = NoTab
    Workers = {w1, w2}
    MaxItems = 2
    MaxVersion = 2
    Hosts = {apex, www, other}
    AppHost = apex
    AuthHosts = {apex, www}
    MaxFlows = 0
    NoState = NoState
    Owners = {ann, bob}
    Windows = {p1, p2}
    NoOwner = NoOwner
    SessionLife = 1
    MaxTokens = 0
    MaxSaves = 2
    MaxDay = 0
    Clients = {client}
    Threads = {w1, w2}
    MaxAttempts = 1
    AttemptSpan = 1
    Lag = 1
    MaxTime = 0
SYMMETRY Symmetry
CHECK_DEADLOCK FALSE
INVARIANTS
    RowsHoldTheirOwn
