\* Two jobs, lost UPDATEs and a restart of the server.
SPECIFICATION FairSpec
CONSTANTS
    Jobs = {j1, j2}
    LostWrites = TRUE
    MaxCrashes = 1
    None = None
CHECK_DEADLOCK FALSE
INVARIANTS
    SuccessMeansConfigured
PROPERTIES
    JobsMoveForward
    KeepsPromise
