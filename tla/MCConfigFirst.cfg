SPECIFICATION Spec
CONSTANTS
    Requests = {r1, r2}
    Configs = {a, b}
    ValidConfigs = {a, b}
    NoConfig = NoConfig
    NoVersion = NoVersion
    MaxOverlap = 2
    MaxFaults = 0
CHECK_DEADLOCK FALSE
PROPERTIES
    FailedReloadRestores
