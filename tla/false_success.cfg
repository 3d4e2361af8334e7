\* One job, one call of the flow, one visit.
SPECIFICATION WizardSpec
CONSTANTS
    Jobs = {j1}
    Flows = {f1}
    MaxVisits = 1
    Reports <- OneChannel
    None = None
CHECK_DEADLOCK FALSE
INVARIANTS
    FinalSuccessOnlyWhenConnected
