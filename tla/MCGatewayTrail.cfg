SPECIFICATION Spec
CONSTANTS
    c1 = c1
    c2 = c2
    o1 = o1
    Gated = {c1}
    Observers = {o1}
INVARIANT EveryCallLeavesATrail
CHECK_DEADLOCK FALSE
