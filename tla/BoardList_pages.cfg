SPECIFICATION FairSpec
CONSTANTS
    ITEM_COUNT = 5
    LastTab = 1
    BoardSize = 11
    MaxPage = 3
    MaxRequests = 4
    MaxPosts = 1
INVARIANTS
    InServerOrder
    OneRequestAtATime
    NoArticleMissed
PROPERTIES
    LockReleased
    KeepsSelection
CHECK_DEADLOCK FALSE
