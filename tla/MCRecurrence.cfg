SPECIFICATION IcsSpec
CONSTANTS
    None = None
    Uids <- MCUids
    Documents <- MCDocuments
    Windows <- MCWindows
    Lengths <- Lengths2026
    FirstWeekday = 4
    MaxPeriods = 8
    MaxOccurrences = 20
INVARIANTS TypeOK Exact DistinctIds FeedIsMeaning LossFlagged
CHECK_DEADLOCK FALSE
