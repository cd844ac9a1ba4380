SPECIFICATION Spec
CONSTANTS
    Services <- MCServices
    PortNames <- MCPortNames
    Top = 3
    Configs <- MCConfigs
INVARIANT ShutdownCommandsRun
