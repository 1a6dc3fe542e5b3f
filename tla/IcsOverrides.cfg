SPECIFICATION IcsSpec
CONSTANTS
    None = None
    Uids <- MCUids
    Documents <- MovedTwice
    Windows <- MCWindows
    Lengths <- Lengths2026
    FirstWeekday = 4
    MaxPeriods = 8
    MaxOccurrences = 20
INVARIANT OwnIdentity
CHECK_DEADLOCK FALSE
