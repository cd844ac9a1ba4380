SPECIFICATION FairSpec
CONSTANTS
    Services <- MCServices
    Order <- MCOrder
    Plans <- MCPlans
INVARIANTS
    StartsOverDependencies
    NothingOutlivesRun
    CreatedIsStoppedOrReported
    RunNeverBlocks
PROPERTIES
    ShutdownIsLast
    TroubleEndsRun
