\* Two devices, a waited and an unwaited command for one of them, two connections.
SPECIFICATION Spec
CONSTANTS
    d1 = d1  d2 = d2  c1 = c1  c2 = c2  s1 = s1  s2 = s2
    Devices = {d1, d2}
    Commands = {c1, c2}
    Sessions = {s1, s2}
    Target <- OneTarget
    Waited = {c1}
    DBFaults = FALSE
    MaxCrashes = 0
    None = None
SYMMETRY SessionSymmetry
CONSTRAINT QuietNeighbour
INVARIANTS
    AtMostOnce
    AnswerOnlyIfRun
    OfflineMeansNeverRun
    VerdictCompletedStands
    AnswersArriveOnce
    HubEntryIsServed
    ServedSessionIsInHub
    RightDevice
PROPERTIES
    SettledAnswerIsFinal
    OnlyAnAnswerRevives
CHECK_DEADLOCK FALSE
