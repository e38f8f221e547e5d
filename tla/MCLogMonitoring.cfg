SPECIFICATION Spec
CONSTANTS
    Workers = {w1, w2}
    Jobs = {"sync", "scan", "collect", "health"}
    Instances = {i1, i2}
    Default = i1
    Upstreams = {u1}
    Lines = {crit, plain}
    Parsed = {crit}
    Critical = {crit}
    Limit = 1
    MaxMatches = 1
    MaxWrites = 1
    MaxEdits = 1
    MaxFaults = 1
SYMMETRY Symmetry
CHECK_DEADLOCK FALSE
INVARIANTS
    TypeOK
    SyncComplete
    SweepCovers
