SPECIFICATION Spec
CONSTANTS
    Workers <- MCWorkers
    MaxEvents = 3
INVARIANTS
    ShutdownLeavesNoRoute
    UIRouteHasServer
PROPERTIES
    ShutdownEnds
    UIIsPublished
