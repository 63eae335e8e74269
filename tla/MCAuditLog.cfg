SPECIFICATION Spec
CONSTANTS
    Users = {u1, u2}
    Requests = {r1, r2}
    Connections = {c1, c2}
    Instances = {i1, i2}
    None = None
SYMMETRY Symmetry
INVARIANTS
    ContextIsOwn
    TransactionsAreAttributed
    LogAgreesWithTables
    EventsComeLast
CHECK_DEADLOCK FALSE
