CONSTANTS
    c1 = c1
    c2 = c2
    c3 = c3
    Checks = {c1, c2, c3}
    None = None
SPECIFICATION HealthSpec
INVARIANTS
    ConnectionHasOneUser
    FalseDownOnlyByClash
PROPERTIES
    OvertakenProbeEnds
CHECK_DEADLOCK FALSE
