CONSTANTS
    u1 = u1
    u2 = u2
    s1 = s1
    s2 = s2
    r1 = r1
    r2 = r2
    r3 = r3
    Users = {u1, u2}
    Sessions = {s1, s2}
    Requests = {r1, r2, r3}
    None = None
SPECIFICATION FairSpec
ACTION_CONSTRAINT InOrder
INVARIANTS
    Inv
    RotatedTwiceOnlyByRace
    SessionSurvives
PROPERTIES
    SessionsEndForOwner
    CleanupSparesSuccessor
    ImplementsSessionTable
    RequestsFinish
CHECK_DEADLOCK FALSE
