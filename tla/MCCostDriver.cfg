SPECIFICATION Spec
CONSTANT
    Bounds <- MCBounds
INVARIANTS
    TypeOK
    FilesOutliveTheirUse
    CleanRunPrintsAnswer
    OnlyKnownLeftovers
    BoundIsRewritten
PROPERTIES
    DriverTerminates
CHECK_DEADLOCK FALSE
