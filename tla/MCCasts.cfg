CONSTANTS
    IntW = 4
    Assignments <- MCCasts
    Values <- MCValues
SPECIFICATION Spec
INVARIANT CastMeans
CHECK_DEADLOCK FALSE
