SPECIFICATION Spec
CONSTANTS
    Users = {u1}
    Devices = {d1}
    Tokens = {t1}
    Requests = {q1}
    None = None
CHECK_DEADLOCK FALSE
PROPERTIES
    ReconnectIsAccepted
