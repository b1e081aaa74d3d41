SPECIFICATION Spec
CONSTANTS
    Limit = 2
    Window = 3
    MaxTime = 7
    MaxAnswers = 6
INVARIANTS
    AtMostTwiceTheLimit
    RefusedOnlyWhenSpent
CHECK_DEADLOCK FALSE
