\* Two jobs for Feishu, one call of the flow, two visits.
SPECIFICATION ComposedSpec
CONSTANTS
    Jobs = {j1, j2}
    LostWrites = FALSE
    MaxCrashes = 0
    None = None
    Flows = {f1}
    MaxVisits = 2
    Reports = {{}}
SYMMETRY AnyJob
CONSTRAINT OnlyFeishu
CHECK_DEADLOCK FALSE
PROPERTIES
    RefinesWizard
    SuccessIsLive
