SPECIFICATION Spec
CONSTANTS
    Requests = {r1, r2}
    Agents = {a1}
    Nodes = {n1}
    AgentNode <- MCAgentNode
    Center = Center
    Modes = {"docker", "other"}
    DefaultMode = "command"
    IsDefault = TRUE
    ConfirmActions = {"restart", "stop"}
    Actions = {"reload", "restart", "start", "stop", "refresh", "status"}
    MaxEdits = 1
    MaxFaults = 1
    None = None
SYMMETRY Symmetry
CHECK_DEADLOCK FALSE
INVARIANTS
    TypeOK
    DisabledUntouched
    RecordsTrue
    LastWord
    NewestStands
    ReloadTested
PROPERTIES
    KeepsTaskQueue
