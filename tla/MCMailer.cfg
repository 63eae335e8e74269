SPECIFICATION FairSpec
CONSTANTS
    Requests = {r1, r2, r3}
    None = None
    MaxVersion = 2
    MaxRestarts = 1
INVARIANTS
    LastMailIsLive
    FreshAfterClear
PROPERTIES
    EveryMailEnds
ACTION_CONSTRAINT ClearsMatter
CONSTRAINT OneQuestionAtATime
CHECK_DEADLOCK FALSE
