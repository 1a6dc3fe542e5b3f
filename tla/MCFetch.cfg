SPECIFICATION Spec
CONSTANTS
    Sources = {"ion", "hlug", "gdg"}
    Kind <- MCKind
    Records = {1, 2, 3, 4, 5, 6, 7, 8, 9, 10, 11, 12, 13}
    Additions = {9}
    Unreadable = {7, 8}
    Unwanted = {6}
    Calendars <- MCCalendars
    Loops = {"ion"}
    PageSize = 4
    MaxConcurrent = 2
    MaxPages = 2
    MaxBevyEvents = 2
    MinPageForRatio = 4
    SkipTolerance = 3
    MaxEdits = 1
INVARIANTS TypeOK CompleteOrFlagged OneDeadFeed SeenOnce
PROPERTY Returns
CHECK_DEADLOCK FALSE
