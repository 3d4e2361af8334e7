\* One device, one command, one connection.
SPECIFICATION Spec
CONSTANTS
    d1 = d1  d2 = d2  c1 = c1  c2 = c2  s1 = s1  s2 = s2
    Devices = {d1}
    Commands = {c1}
    Sessions = {s1}
    Target <- SoleTarget
    Waited = {}
    DBFaults = FALSE
    MaxCrashes = 0
    None = None
PROPERTIES
    AnswerIsFinal
CHECK_DEADLOCK FALSE
