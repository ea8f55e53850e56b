SPECIFICATION MCAskSpec
CONSTANTS
    NoAnswer = NoAnswer
    Furniture = Furniture
    Unsaid = Unsaid
    Covers <- MCCovers
    Presets <- MCPresets
    DemoStart = 9
    DemoEnd = 12
CHECK_DEADLOCK FALSE
INVARIANTS
    NoRestrictionIsDropped
