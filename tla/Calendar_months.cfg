SPECIFICATION Spec

CONSTANTS
    LastMonth = 3
    LastDay = 2
    ThisMonth = 2
    Today = 2
    Entries <- MCEntries
    MaxRequests = 3

INVARIANTS
    TypeOK
    ShownHasDot
    MonthShown
    DayShown
