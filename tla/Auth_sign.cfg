SPECIFICATION AuthSpec
CONSTANTS
    p1 = p1
    p2 = p2
    Phones = {p1, p2}
    TestPhones = {p1}
    NoText = NoText
    Partial = Partial
    Trial = Trial
    MaxRequests = 2
INVARIANTS
    SignedNumberIsRight
    OwnAccount
    ScreenTellsState
PROPERTIES
    NoSessionWithoutLogin
CHECK_DEADLOCK FALSE
