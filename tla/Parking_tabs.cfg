SPECIFICATION Spec
CONSTANTS
    ITEM_COUNT = 4
    TEMP_CAR = 4
    PERM_CAR = 1
    Passages = 1
    Faults = {"offline", "answer"}
    MaxPage = 1
    MaxRequests = 4
INVARIANTS LockHasRequest LabelsAfterOneChange
PROPERTIES KeepsSelection DeletesWhatWasTapped
CHECK_DEADLOCK FALSE
