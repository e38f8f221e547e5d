SPECIFICATION Spec
CONSTANTS
    Requests = {r1, r2, r3}
    Configs = {a, b, bad}
    ValidConfigs = {a, b}
    NoConfig = NoConfig
    NoVersion = NoVersion
    MaxOverlap = 2
    MaxFaults = 1
SYMMETRY Symmetry
CHECK_DEADLOCK FALSE
INVARIANTS
    TypeOK
    OnlyValidConfigs
    AloneDelivers
    QuietAgreement
PROPERTIES
    RestoreUndoesPublish
    KeepsRecord
