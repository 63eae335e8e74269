SPECIFICATION Spec
CONSTANTS
    Users = {u1}
    Requests = {r1, r2}
    Connections = {c1}
    Instances = {i1}
    None = None
INVARIANTS
    EveryChangeIsLogged
CHECK_DEADLOCK FALSE
