SPECIFICATION ScoreSpec
CONSTANTS
    Names <- MCNames
    MaxInt = 3
    Functions <- MCFunctions
    Inputs <- MCInputs
    Garbage <- MCGarbage
    AutoLimit = 1
    maxtime = 2
INVARIANTS
    ScoreTypeOK
    BoundsAsGiven
    MeanIsExact
PROPERTIES
    ScoreTerminates
CHECK_DEADLOCK FALSE
