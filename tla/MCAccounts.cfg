SPECIFICATION AccountsSpec
CONSTANTS
    Users = {alice}
    NoUser = NoUser
    Tabs = {p1, p2}
    NoTab = NoTab
    Workers = {w1, w2}
    MaxItems = 2
    MaxVersion = 2
    Hosts = {apex, www, other}
    AppHost = apex
    AuthHosts = {apex, www}
    MaxFlows = 3
    NoState = NoState
    Owners = {ann, bob}
    Windows = {p1, p2}
    NoOwner = NoOwner
    SessionLife = 1
    MaxTokens = 2
    MaxSaves = 2
    MaxDay = 1
    Clients = {client, neighbour}
    Threads = {w1, w2}
    MaxAttempts = 2
    AttemptSpan = 2
    Lag = 1
    MaxTime = 4
SYMMETRY Symmetry
CHECK_DEADLOCK FALSE
INVARIANTS
    AckedItemsSurvive
    TabShowsAStoredState
    SignInComesBack
    ThrottleHolds
PROPERTIES
    ImplementsRegister
    ImplementsLocalRegister
