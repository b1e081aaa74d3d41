SPECIFICATION Spec
CONSTANTS
    d1 = d1
    d2 = d2
    a1 = a1
    a2 = a2
    Domains = {d1, d2}
    Actions = {a1, a2}
    InitialFiles <- MCInitialFiles
    Judgments <- MCJudgments
    OutcomeKinds = {"executed"}
    MaxEvents = 2
    MaxDecisions = 2
    MaxOutcomes = 1
SYMMETRY MCSymmetry
INVARIANTS
    TypeOK
    AcknowledgedIsDurable
    OwnFileRecovers
    RestartIsInvisible
    ReplayMatches
    SuspensionIsHonoured
    AnswersInOrder
    DecisionsExplainThemselves
    GateFollowsLog
PROPERTIES
    ImplementsAuditLog
    FileOnlyGrows
CHECK_DEADLOCK FALSE
