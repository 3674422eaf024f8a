SPECIFICATION Spec
CONSTANTS
    Groups <- MCGroups
    Listing <- MCListing
    ITEM_COUNT = 1
    Joined = {2}
    Faults = {"offline", "answer"}
    MaxPage = 2
    MaxRequests = 5
INVARIANTS SectionsTellMembership PageTellsMembership CrashNeedsCrossing
CHECK_DEADLOCK FALSE
