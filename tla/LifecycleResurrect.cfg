\* One sandbox, a Stop and a Delete at once, no failing call.
CONSTANTS
    Ids = {s1}
    NoId = NoId
    Containers = {c1}
    NoCtr = NoCtr
    Workers = {w1, w2}
    Mcp = {}
    Reaper = Reaper
    TTLs = {0}
    PoolTarget = 1
    MaxWarm = 0
    ReaperOn = FALSE
    MaxTime = 0
    MaxFaults = 0
    MaxExits = 0
CHECK_DEADLOCK FALSE
SPECIFICATION Spec
INVARIANT DeletedForGood
