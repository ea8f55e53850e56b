SPECIFICATION CampusSpec
CONSTANTS
    NoAnswer = NoAnswer
    Unread = Unread
    NoFilter = NoFilter
    DayLen = 6
    Dawn = 1
    VenueHalls = {"d2"}
    VenueSection = "viridian"
    DietBlocks <- MCDietBlocks
    Matches <- MCMatches
    KnownHours <- MCKnownHours
    TransitDay = 6
    ServiceDays <- MCServiceDays
    Feeds <- MCFeeds
    BusStops = {"A", "B"}
    Horizons = {2, 5}
    BoardLimit = 2
    RideLimit = 2
    StaleAfter = 1
    NoRide = NoRide
    ScheduleDay = 6
    Week = 7
    MealFrom = 1
    MealTo = 5
    Unclear = Unclear
    Missing = Missing
    Halls <- MCHalls
    Spot <- MCSpot
    Stops <- MCStops
    Starts = {0, 2}
    Ends = {2, 5, 9}
    HourSets <- MCHourSets
    Timetables <- MCTimetables
    Ride = 1
    LiveRows <- MCLiveRows
    EatMinutes = 2
    BoardBuffer = 1
    None = None
    Month = {1, 2, 3}
    EventDay = 2
    EventsStaleAfter = 1
    CalendarLimit = 1
    NotSaid = NotSaid
    NoSnapshot = NoSnapshot
    Pages = {p1}
    LastVersion = 4
    Kind <- MCKind
    MissThreshold = 2
    MaxCrawls = 3
    Nothing = Nothing
    Unlisted = Unlisted
    NoTerm = NoTerm
    CatalogMaxAge = 1
    SearchLimit = 1
    MaxConflicts = 2
    MaxPreviewRows = 4
    NoLimit = NoLimit
    MaxIcsEvents = 2
    MaxIcsOccurrences = 3
    MaxIcsWindow = 8
    IcsWeek = 3
    IcsDay = 2
    NumWidth = 2
    VtesWidth = 4
    EntranceWidth = 3
    ListLimit = 2
    GisDay = 5
    Furniture = Furniture
    Unsaid = Unsaid
    Covers <- MCCovers
    Presets <- MCPresets
    DemoStart = 9
    DemoEnd = 12
CHECK_DEADLOCK FALSE
INVARIANTS
    DiningKeepsItsWord
    BusesAsTimetabled
    OwnTimeIsKept
    WeatherIsNotPlayedDown
    EventsKeepTheirWord
    ClassesKeepTheirWord
    MapKeepsItsWord
    AskKeepsItsWord
    PlanIsSound
    ChoiceIsSound
PROPERTIES
    CrawlKeepsItsWord
