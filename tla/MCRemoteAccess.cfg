SPECIFICATION RemoteFairSpec
CONSTANTS
    a1 = a1
    Domains <- MCDomains
    Actions = {a1}
    InitialFiles <- MCInitialFiles
    Judgments <- MCJudgments
    OutcomeKinds = {"executed"}
    MaxEvents = 3
    MaxDecisions = 3
    MaxOutcomes = 1
    Principal = "alice"
    AllowedScopes = {"alpha"}
    MaxInflight = 3
INVARIANTS
    ExplainedAreOwn
    CheckedIsUsed
    ServedLogsReplay
PROPERTIES
    ForeignDomainsUntouched
    RequestsEnd
CHECK_DEADLOCK FALSE
