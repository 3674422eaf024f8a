SPECIFICATION FairSpec
CONSTANTS
    a = a
    b = b
    n1 = n1
    n2 = n2
    Users = {a, b}
    NoOne = NoOne
    HomeLists <- TwoLists
    Faults = {"offline", "missing", "body", "failure"}
    MaxLoads = 8
INVARIANTS
    ButtonOpensItsNotice
    LastRecordIsStored
    HomeOfSession
    LogoutIsComplete
PROPERTIES
    LoadingEnds
CHECK_DEADLOCK FALSE
