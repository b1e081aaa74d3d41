SPECIFICATION Spec
CONSTANTS
    Probabilities <- MCProbabilities
    Reliabilities <- MCReliabilities
    MaxCorroborators = 3
    MaxTick = 2
INVARIANT AcceptanceIsEarned
PROPERTY SupportIsMonotone
CHECK_DEADLOCK FALSE
