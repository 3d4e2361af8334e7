SPECIFICATION Spec
CONSTANTS
    Users = {u1, u2, u3, u4}
    Requests = {q1, q2, q3}
    None = None
SYMMETRY Symmetry
CHECK_DEADLOCK FALSE
INVARIANTS
    AdminLostOnlyByOverlap
PROPERTIES
    DeletedStaysDeleted
