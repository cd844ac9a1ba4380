SPECIFICATION Spec
CONSTANTS
    Kinds <- MCKinds
    Versions <- MCVersions
    OtherPorts = {2}
    MyPort = 1
    TTL = 2
    Timeout = 1
    MaxFaults = 1
    MaxID = 5
    MaxStrays = 1
INVARIANTS StopLeavesNothing
PROPERTIES LossIsNoticed GoneIsVacated
