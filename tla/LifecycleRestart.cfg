\* One sandbox, one restart, no failing call.
CONSTANTS
    Ids = {s1}
    NoId = NoId
    Containers = {c1, c2}
    NoCtr = NoCtr
    Workers = {w1}
    Mcp = {}
    Reaper = Reaper
    TTLs = {0}
    PoolTarget = 1
    MaxWarm = 1
    ReaperOn = FALSE
    MaxTime = 0
    MaxFaults = 0
    MaxExits = 1
CHECK_DEADLOCK FALSE
SPECIFICATION Spec
INVARIANT SandboxKeepsContainer
