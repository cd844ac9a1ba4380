SPECIFICATION Spec
CONSTANTS
    Routes <- MCRoutes
    None = None
    OtherSets <- MCOtherSets
    MaxSignals = 1
    MaxAsks = 2
    MaxCheckouts = 1
INVARIANTS
    NothingLeft
    RequestReachesNamed
PROPERTIES
    StopEnds
CHECK_DEADLOCK FALSE
