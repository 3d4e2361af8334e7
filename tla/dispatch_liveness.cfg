\* Fair server goroutines; unfair devices, network and operator; UPDATEs that fail
\* and one crash of the server.
SPECIFICATION FairSpec
CONSTANTS
    d1 = d1  d2 = d2  c1 = c1  c2 = c2  s1 = s1  s2 = s2
    Devices = {d1}
    Commands = {c1}
    Sessions = {s1, s2}
    Target <- SoleTarget
    Waited = {c1}
    DBFaults = TRUE
    MaxCrashes = 1
    None = None
INVARIANTS
    TypeOK
PROPERTIES
    KeepsPromise
    SentIsResolved
    CallerReturns
    DeadSessionIsDropped
CHECK_DEADLOCK FALSE
