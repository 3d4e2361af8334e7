\* Each part by itself: two jobs, two calls of the wizard's flow, two visits; two
\* logins; one device in the feed; a batch for two devices; two files.
SPECIFICATION WebSpec
CONSTANTS
    Jobs = {j1, j2}
    Flows = {f1, f2}
    MaxVisits = 2
    Reports <- OneChannel
    None = None
    Tokens = {t1, t2}
    Nobody = Nobody
    MaxWire = 2
    MaxActions = 2
    MaxFailures = 1
    Targets = {d1, d2}
    BatchFaults = TRUE
    MaxVersion = 2
    MaxLoads = 2
    Files = {a, b}
    Blank = Blank
    MaxReads = 2
CHECK_DEADLOCK FALSE
INVARIANTS
    WebTypeOK
    SuccessesAreEarned
    WaitsAreAttended
    SessionAgrees
    ShownBatchIsTrue
    OwnChangesAreShown
    SavesOwnText
PROPERTIES
    OwnFlowDecides
    WizardEnds
    InstallEnds
    LoadingEnds
    FeedComesBack
    OnlineIsShown
    DisplayCatchesUp
    BatchEndIsShown
