SPECIFICATION Spec
CONSTANTS
    Months = {1, 2}
    ThisMonth = 1
    Faults = {"offline", "answer"}
    MaxScreens = 2
    MaxSheets = 2
    MaxRequests = 3
INVARIANTS
    ListIsOneAnswer
    NoDataIsTrue
PROPERTY KeepsSelection
CHECK_DEADLOCK FALSE
