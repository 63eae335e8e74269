SPECIFICATION Spec
CONSTANTS
    Requests = {r1, r2, r3, r4, r5}
    None = None
    BatchSize = 2
SYMMETRY Symmetry
INVARIANTS
    SwitchAsLastSet
    SwitchMatchesSecret
    DeadCodeReturnsByWriteBack
PROPERTIES
    SecondFactorAsPromised
CHECK_DEADLOCK FALSE
