SPECIFICATION RelaxedSpec
CONSTANTS
    MaxOutputs = 2
    Nothing = Nothing
INVARIANTS
    RelaxedTypeOK
    NameNotesSurfaced
PROPERTIES
    OrdinaryPath
CHECK_DEADLOCK FALSE
