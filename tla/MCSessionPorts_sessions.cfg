SPECIFICATION Spec
CONSTANTS
    Services <- MCServices
    PortNames <- MCPortNames
    Top = 3
    Configs <- MCConfigs
INVARIANTS
    ResolvedUnique
    OrderIsFirst
    StaleOnlyFromABranch
    ServicesDoNotClash

    
