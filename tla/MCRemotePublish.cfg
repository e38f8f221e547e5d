SPECIFICATION Spec
CONSTANTS
    Requests = {r1, r2}
    Agents = {a1}
    Configs = {x, y, bad}
    ValidConfigs = {x, y}
    NoConfig = NoConfig
    NoRequest = NoRequest
    MaxFaults = 2
SYMMETRY Symmetry
CHECK_DEADLOCK FALSE
INVARIANTS
    TypeOK
    OnlyValidConfigs
    SuccessDelivers
    NewestSuccessStands
    AgentAgreement
PROPERTIES
    SettledForGood
    KeepsTaskQueue
    KeepsRecord
