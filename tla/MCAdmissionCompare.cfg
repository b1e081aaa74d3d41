SPECIFICATION Spec
CONSTANTS
    Incidents = {"i1", "i2"}
    Rows <- MCRows
    MaxRows = 4
INVARIANTS
    BooksBalance
    
    SparingOnlyRelaxes
    CorroborationOnlyAdds
CHECK_DEADLOCK FALSE
