CONSTANTS
    i1 = i1
    i2 = i2
    i3 = i3
    Ids = {i1, i2, i3}
    MaxTime = 3
    MaxTake = 2
SPECIFICATION Spec
INVARIANTS
    MissedOnlyAfterDeletion
    QuietWalkIsExact
CHECK_DEADLOCK FALSE
