SPECIFICATION Spec
CONSTANT
    Bounds <- MCBounds
INVARIANT
    FailedLlcGivesNoBound
CHECK_DEADLOCK FALSE
