SPECIFICATION Spec
CONSTANTS
    Events = {e1, e2}
    Clients = {c1, c2}
    Sources = {s1}
    NoSource = NoSource
    Capacity = 1
    Window = 0
    MaxTime = 1
    MaxFaults = 1
INVARIANTS
    TypeOK
    NoSendOnClosed
    Delivery
    DuplicatesOverlapped
PROPERTIES
    HubNeverBlocks
CHECK_DEADLOCK FALSE
