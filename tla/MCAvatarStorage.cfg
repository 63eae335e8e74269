SPECIFICATION Spec
CONSTANTS
    Requests = {r1, r2, r3}
    Variants = {v1, v2}
    Original = Original
    None = None
SYMMETRY Symmetry
INVARIANTS
    AvatarIsStored
    DeletedIsGone
    LeftoversExplained
    AccountStaysDeleted
CHECK_DEADLOCK FALSE
