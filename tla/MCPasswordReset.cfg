SPECIFICATION PRSpec
CONSTANTS
    Users = {u1}
    Sessions = {s1}
    Requests = {r1, r2, r3, r4}
    None = None
SYMMETRY Symmetry
INVARIANTS
    OldPasswordOnlyByRace
    UsedTokenStaysCleared
PROPERTIES
    LinkGoneOnlyByUse
CHECK_DEADLOCK FALSE
