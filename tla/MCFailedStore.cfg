SPECIFICATION Spec
CONSTANTS
    d1 = d1
    d2 = d2
    a1 = a1
    a2 = a2
    Domains = {d1}
    Actions = {a1}
    InitialFiles <- MCInitialFiles
    Judgments <- MCJudgments
    OutcomeKinds = {"executed"}
    MaxEvents = 2
    MaxDecisions = 1
    MaxOutcomes = 0
INVARIANT FailedStoreIsNotPermissive
CHECK_DEADLOCK FALSE
