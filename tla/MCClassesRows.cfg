SPECIFICATION TableSpec
CONSTANTS
    NoAnswer = NoAnswer
    NoTerm = NoTerm
    CatalogMaxAge = 1
    SearchLimit = 1
    MaxConflicts = 2
    MaxPreviewRows = 4
CHECK_DEADLOCK FALSE
INVARIANTS
    RowIsAMeeting
