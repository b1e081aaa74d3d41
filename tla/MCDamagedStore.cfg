SPECIFICATION Spec
CONSTANTS
    d1 = d1
    d2 = d2
    a1 = a1
    Domains = {d1, d2}
    Actions = {a1}
    InitialFiles <- MCInitialFiles
    Judgments <- MCJudgments
    OutcomeKinds = {"executed"}
    MaxEvents = 2
    MaxDecisions = 1
    MaxOutcomes = 0
INVARIANT EveryServedDomainReplays
CHECK_DEADLOCK FALSE
