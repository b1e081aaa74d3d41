SPECIFICATION Spec
CONSTANTS
    Judgments <- MCJudgments
    Contexts <- MCContexts
    MaxEvents = 4
INVARIANTS
    TypeOK
    SuspendedIffUnansweredEvidence
    ChangesHaveAdmittedCause
    ChangeIdsUnique
    ViaExplainsAnswer
    RestoredOnlyUnderSupervision
PROPERTY NothingElseHeals
CHECK_DEADLOCK FALSE
