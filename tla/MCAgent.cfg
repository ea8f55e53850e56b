SPECIFICATION Spec
CONSTANTS
    MaxTurns = 3
    MaxToolCalls = 3
    MaxIdentical = 1
    MaxBatch = 2
    Calls <- MCCalls
    Answers <- MCAnswers
    Contexts <- MCContexts
    ToolResults <- MCResults
    Private <- MCPrivate
    Malformed = Malformed
    None = None
    milk = milk
    vegan = vegan
    noon = noon
    night = night
CHECK_DEADLOCK FALSE
INVARIANTS
    WithinBounds
    EveryCallAnswered
    
    ReplyIsCoherent
PROPERTIES
    Ends
