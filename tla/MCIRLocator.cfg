SPECIFICATION CheckSpec
CONSTANTS
    Programs <- MCPrograms
    Asserts = TRUE
    MaxPasses = 2
INVARIANTS
    LocateTypeOK
    LinesNumberProgram
    DebugValuesPlaced
    DebugifyComplete
    ReportIsExact
    StatisticsAddUp
PROPERTIES
    BodyPreserved
    LocateTerminates
CHECK_DEADLOCK FALSE
