SPECIFICATION Spec
CONSTANTS
    MaxOutputs = 3
    Nothing = Nothing
INVARIANTS
    TypeOK
    RowsMatchKeys
    OwnNeverSent
CHECK_DEADLOCK FALSE
