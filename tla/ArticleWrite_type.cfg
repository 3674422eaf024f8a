SPECIFICATION Spec
CONSTANTS
    f1 = f1
    f2 = f2
    Files = {f1, f2}
    Faults = {}
    MaxPicks = 2
    MaxSubmissions = 1
INVARIANTS
    TypeIsTheOneShown
CHECK_DEADLOCK FALSE
