SPECIFICATION Spec
CONSTANTS
    ITEM_COUNT = 4
    LastTab = 0
    BoardSize = 9
    MaxPage = 3
    MaxRequests = 4
    MaxPosts = 0
PROPERTIES
    NoMoreDataIsTrue
CHECK_DEADLOCK FALSE
