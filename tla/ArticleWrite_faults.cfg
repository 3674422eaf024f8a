SPECIFICATION FairSpec
CONSTANTS
    f1 = f1
    f2 = f2
    Files = {f1, f2}
    Faults = {"upload", "address", "answer", "refuse", "body"}
    MaxPicks = 2
    MaxSubmissions = 2
INVARIANTS
    SentIsShown
    AlertHasReason
    NoDuplicate
PROPERTIES
    PublishesOnce
    AlertEnds
CHECK_DEADLOCK FALSE
