SPECIFICATION Spec
CONSTANTS
    Articles = {1, 2}
    Boards <- MCBoards
    Listing <- MCListing
    Deleted = {2}
    Texts = {"hello"}
    MaxPages = 2
    MaxRequests = 3
INVARIANTS
    TypeOK
    CountsInItsRow
    CarefulIsSafe
    CommentsAreTrue
CHECK_DEADLOCK FALSE
