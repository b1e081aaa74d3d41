SPECIFICATION FairSpec
CONSTANTS
    c1 = c1
    c2 = c2
    o1 = o1
    Gated = {c1, c2}
    Observers = {o1}
INVARIANTS
    TypeOK
    DenialIsFinal
    OutcomesAreHonest
PROPERTIES
    ImplementsGate
    SuspensionStopsNewCalls
    EveryCallAnswered
CHECK_DEADLOCK FALSE
