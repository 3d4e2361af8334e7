SPECIFICATION Spec
CONSTANTS
    Users = {u1, u2}
    Requests = {q1, q2}
    None = None
CHECK_DEADLOCK FALSE
INVARIANTS
    AdminRemains
