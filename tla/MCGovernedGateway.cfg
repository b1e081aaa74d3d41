SPECIFICATION GovernedSpec
CONSTANTS
    d1 = d1
    c1 = c1
    c2 = c2
    o1 = o1
    Domains = {d1}
    Actions = {c1, c2}
    InitialFiles <- MCInitialFiles
    Judgments <- MCJudgments
    OutcomeKinds = {"blocked", "executed", "failed"}
    MaxEvents = 1
    MaxDecisions = 2
    MaxOutcomes = 1
    Observers = {o1}
    Governed = d1
SYMMETRY MCSymmetry
PROPERTY ImplementsGateway
CHECK_DEADLOCK FALSE
