CONSTANTS
    u1 = u1
    u2 = u2
    r1 = r1
    Users = {u1, u2}
    Requests = {r1}
    None = None
SPECIFICATION Spec
INVARIANTS
    HandledAsEntitled
    ExceptionsAreAnswered
    NothingIsLost
PROPERTIES
    EveryRequestIsAnswered
CHECK_DEADLOCK FALSE
