SPECIFICATION PlannerSpec
CONSTANTS
    Halls <- MCHalls
    Spot <- MCSpot
    Stops <- MCStops
    Starts = {0, 2}
    Ends = {2, 5, 9}
    HourSets <- MCHourSets
    Timetables <- MCTimetables
    Ride = 1
    LiveRows <- MCLiveRows
    EatMinutes = 2
    BoardBuffer = 1
    None = None
CHECK_DEADLOCK FALSE
INVARIANTS
    BoardsBeforeDeparture
