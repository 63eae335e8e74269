CONSTANTS
    u1 = u1
    r1 = r1
    Users = {u1}
    Requests = {r1}
    None = None
SPECIFICATION Spec
INVARIANTS
    CountedAsAnswered
CHECK_DEADLOCK FALSE
